---- MODULE Spec2Model ----
(***************************************************************************)
(* Model of the request-execution core of composable-fetcher:              *)
(* createComposableFetcherFunctions(d).execute(params), its recovery       *)
(* protocol (handleError / retryFn) and the helpers resolveHeaders,        *)
(* toError, isQueryMethod, hasErrorString and decodeErrorBody.             *)
(*                                                                         *)
(* The implementation modelled is the one in                               *)
(* src/src/functions/composable-fetcher.functions.test.ts, lines 911-1096  *)
(* (the functions module follows its tests in that file).                  *)
(*                                                                         *)
(* One original call of execute is followed from the call to its           *)
(* settlement.  Every invocation of execute is an "attempt"; attempt 1 is  *)
(* the original call, the others are started by the retry function handed  *)
(* to the recovery hook.  An attempt is suspended at most twice: awaiting  *)
(* the transport call (pc = "fetch") and awaiting the body parse and the   *)
(* schema validation (pc = "body").  The transport, the schemas and the    *)
(* recovery hook are the environment: their outcomes are chosen            *)
(* nondeterministically.  Time (durationMs) is not modelled.               *)
(*                                                                         *)
(* The builder in front of the core, createComposableFetcher(config) with  *)
(* url(...).run(method) and configure(next), is modelled from              *)
(* src/src/composable-fetcher.ts.                                          *)
(***************************************************************************)
EXTENDS Naturals, Sequences, FiniteSets, TLC

VARIABLES
  instances,  \* the configurations of the fetcher instances created so far
  d,          \* the dependencies given to createComposableFetcherFunctions
  attempts,   \* the invocations of execute, in the order they were started
  fetchCalls, \* the calls received by the transport function, in order
  spans,      \* the observability events received by the sink, in order
  hookCalls   \* the invocations of the recovery hook, in order

vars == <<instances, d, attempts, fetchCalls, spans, hookCalls>>

(***************************************************************************)
(* Bounds of the model.                                                    *)
(***************************************************************************)
\* how many fetcher instances are created, the first one included
MaxInstances == 2
\* how many times the recovery hook of one call may invoke the retry function
MaxRetryCalls == 2

(***************************************************************************)
(* Optional values: <<>> is "absent" (undefined), <<v>> is the value v.    *)
(***************************************************************************)
None == <<>>
Some(v) == <<v>>

(***************************************************************************)
(* JSON values.  An object is an ordered list of fields                    *)
(* <<key, type of the value, text of the value>>.                          *)
(***************************************************************************)
Undefined == [type |-> "undefined", fields |-> <<>>]
JNull == [type |-> "null", fields |-> <<>>]
JObj(fields) == [type |-> "object", fields |-> fields]
\* a JSON string; its text is not needed by the model
JString == [type |-> "string", fields |-> <<>>]

\* the text of a body that is not JSON, as response.text() would give it
RawText == [type |-> "text", fields |-> <<>>]

HasField(data, key) == \E n \in 1..Len(data.fields) : data.fields[n][1] = key
Field(data, key) ==
  data.fields[CHOOSE n \in 1..Len(data.fields) : data.fields[n][1] = key]

UserBody == JObj(<< <<"id", "string", "1">> >>)
ErrorXBody == JObj(<< <<"error", "string", "X">> >>)
EmailBody == JObj(<< <<"email", "string", "a@b.com">> >>)
ErrorNumBody == JObj(<< <<"error", "number", "5">> >>)
EmptyBody == JObj(<<>>)
ApiErrorBody == JObj(<< <<"code", "string", "E42">>, <<"error", "string", "taken">> >>)
SubstituteValue == JObj(<< <<"substitute", "string", "yes">> >>)

(***************************************************************************)
(* Header maps are functions from header names to header values.           *)
(***************************************************************************)
EmptyMap == [k \in {} |-> ""]
UndefinedLayer == [defined |-> FALSE, map |-> EmptyMap]
Layer(m) == [defined |-> TRUE, map |-> m]

\* Object.assign(target, source) for one source
Assign(target, layer) ==
  IF layer.defined
    THEN [k \in DOMAIN target \cup DOMAIN layer.map |->
            IF k \in DOMAIN layer.map THEN layer.map[k] ELSE target[k]]
    ELSE target

RECURSIVE AssignAll(_, _)
AssignAll(target, layers) ==
  IF layers = <<>> THEN target
  ELSE AssignAll(Assign(target, Head(layers)), Tail(layers))

\* variant: the Accept default is assigned after the layers
resolveHeadersDefaultLast(layers) ==
  AssignAll([k \in {} |-> ""], layers \o << Layer("Accept" :> "application/json") >>)

\* variant: only the last layer is applied, the earlier ones are dropped
resolveHeadersLastOnly(layers) ==
  AssignAll("Accept" :> "application/json", <<layers[Len(layers)]>>)

resolveHeaders(layers) ==
  AssignAll("Accept" :> "application/json", layers)

\* variant: the method token is compared without regard to case
isQueryMethodAnyCase(method) ==
  method \in {"GET", "HEAD", "OPTIONS", "get", "head", "options"}

isQueryMethod(method) ==
  method = "GET" \/ method = "HEAD" \/ method = "OPTIONS"

(***************************************************************************)
(* Classified errors (FetchError) and the throwable built from them.       *)
(***************************************************************************)
NetworkError(message) ==
  [type |-> "network", message |-> message, status |-> None,
   statusText |-> None, data |-> None, issues |-> None]
HttpError(status, statusText, message, data) ==
  [type |-> "http", message |-> message, status |-> Some(status),
   statusText |-> Some(statusText), data |-> data, issues |-> None]
\* variant: the parse failure is tagged as an http failure
ParseErrorTaggedHttp(message, issues) ==
  [type |-> "http", message |-> message, status |-> None,
   statusText |-> None, data |-> None, issues |-> Some(issues)]

ParseError(message, issues) ==
  [type |-> "parse", message |-> message, status |-> None,
   statusText |-> None, data |-> None, issues |-> Some(issues)]

\* variant: the name does not carry the variant tag
toErrorFixedName(fe) ==
  [name |-> "FetchError", message |-> fe.message, fetchError |-> Some(fe)]

\* variant: a plain Error with the message, the FetchError is not attached
toErrorMessageOnly(fe) ==
  [name |-> "Error", message |-> fe.message, fetchError |-> None]

toError(fe) ==
  [name |-> "FetchError." \o fe.type, message |-> fe.message,
   fetchError |-> Some(fe)]

\* what a recovery hook throws when it fails on its own
HookException == [name |-> "Error", message |-> "hook failed", fetchError |-> None]

(***************************************************************************)
(* Standard Schema objects, named after the helpers of the test kit:       *)
(* "mock" is createMockSchema (accepts every value and returns it),        *)
(* "failing" is createFailingMockSchema("expected string").  "none" is an  *)
(* absent schema.  Two schemas of the kind a validation library builds:    *)
(* "transform" accepts every value and returns an object with one more     *)
(* field, "strict" accepts the objects that have a field code and reports  *)
(* two issues for every other value.                                       *)
(***************************************************************************)
Validate(schema, value) ==
  CASE schema = "mock" ->
         [value |-> Some(value), issues |-> None]
    [] schema = "transform" ->
         [value |-> Some(JObj(Append(value.fields, <<"validated", "string", "yes">>))),
          issues |-> None]
    [] schema = "strict" ->
         IF value.type = "object" /\ HasField(value, "code")
           THEN [value |-> Some(value), issues |-> None]
           ELSE [value |-> None,
                 issues |-> Some(<< [message |-> "code is required"],
                                    [message |-> "expected an api error"] >>)]
    [] OTHER ->
         [value |-> None, issues |-> Some(<< [message |-> "expected string"] >>)]

\* variant: the issue messages are collected last to first
IssueMessagesReversed(issues) ==
  [n \in 1..Len(issues) |-> issues[Len(issues) + 1 - n].message]

\* result.issues.map((i) => i.message)
IssueMessages(issues) == [n \in 1..Len(issues) |-> issues[n].message]

\* message extractors: (data) => data.error, at request and dependency level
ApplyErrorMessage(fn, data) ==
  IF HasField(data, "error")
    THEN fn \o ":" \o Field(data, "error")[3]
    ELSE fn \o ":undefined"

\* variant: the dependency-level value wins over the request-level one
CoalesceDependencyFirst(a, b) == IF b # "none" THEN b ELSE a

\* variant: the request-level value is ignored
CoalesceDependencyOnly(a, b) == b

\* a ?? b on optional handlers and schemas, "none" being undefined
Coalesce(a, b) == IF a # "none" THEN a ELSE b

\* variant: any field named error counts, whatever its type
hasErrorStringAnyType(data) ==
  /\ data.type = "object"
  /\ HasField(data, "error")

hasErrorString(data) ==
  /\ data.type = "object"
  /\ HasField(data, "error")
  /\ Field(data, "error")[2] = "string"

\* variant: when the error schema reports issues the default decoding is used
decodeErrorBodyDefaultOnIssues(data, fallback, errorSchema, errorMessage) ==
  LET default == IF hasErrorString(data)
                   THEN [message |-> Field(data, "error")[3], data |-> None]
                   ELSE [message |-> fallback, data |-> None]
  IN IF errorSchema = "none"
       THEN default
       ELSE LET result == Validate(errorSchema, data) IN
            IF result.issues # None
              THEN default
              ELSE [message |-> IF errorMessage # "none"
                                  THEN ApplyErrorMessage(errorMessage, result.value[1])
                                  ELSE fallback,
                    data |-> result.value]

\* variant: the extractor is also applied to a body the schema rejected
decodeErrorBodyExtractsOnIssues(data, fallback, errorSchema, errorMessage) ==
  IF errorSchema = "none"
    THEN IF hasErrorString(data)
           THEN [message |-> Field(data, "error")[3], data |-> None]
           ELSE [message |-> fallback, data |-> None]
    ELSE LET result == Validate(errorSchema, data) IN
         IF result.issues # None
           THEN [message |-> IF errorMessage # "none"
                               THEN ApplyErrorMessage(errorMessage, data)
                               ELSE fallback,
                 data |-> None]
           ELSE [message |-> IF errorMessage # "none"
                               THEN ApplyErrorMessage(errorMessage, result.value[1])
                               ELSE fallback,
                 data |-> result.value]

decodeErrorBody(data, fallback, errorSchema, errorMessage) ==
  IF errorSchema = "none"
    THEN IF hasErrorString(data)
           THEN [message |-> Field(data, "error")[3], data |-> None]
           ELSE [message |-> fallback, data |-> None]
    ELSE LET result == Validate(errorSchema, data) IN
         IF result.issues # None
           THEN [message |-> fallback, data |-> None]
           ELSE [message |-> IF errorMessage # "none"
                               THEN ApplyErrorMessage(errorMessage, result.value[1])
                               ELSE fallback,
                 data |-> result.value]

\* JSON.stringify of a request body
RECURSIVE StringifyFields(_)
StringifyFields(fields) ==
  IF fields = <<>> THEN ""
  ELSE LET f == Head(fields)
           text == IF f[2] = "string" THEN "\"" \o f[3] \o "\"" ELSE f[3]
       IN "\"" \o f[1] \o "\":" \o text
          \o (IF Len(fields) > 1 THEN "," ELSE "")
          \o StringifyFields(Tail(fields))

Stringify(value) ==
  IF value.type = "null" THEN "null"
  ELSE "{" \o StringifyFields(value.fields) \o "}"

(***************************************************************************)
(* The inputs: dependencies and request descriptors (ExecuteParams).       *)
(* Handlers are named: "none" is an absent handler.                        *)
(***************************************************************************)
OldHeaders == ("Authorization" :> "Bearer old-token") @@ ("X-Client" :> "web")
NewHeaders == "Authorization" :> "Bearer new-token"

Dependencies ==
  [onSpan : {"none", "depSpan"},
   catch : {"none", "depCatch"},
   errorSchema : {"none"},
   errorMessage : {"none"}]

Requests ==
  { [method |-> "GET", body |-> None, headers |-> EmptyMap],
    [method |-> "POST", body |-> Some(EmailBody), headers |-> OldHeaders] }

ParamsSet ==
  { [url |-> "/api/test",
     method |-> r.method,
     op |-> IF isQueryMethod(r.method) THEN "query" ELSE "mutate",
     name |-> "test",
     fallback |-> "failed",
     headers |-> r.headers,
     body |-> r.body,
     schema |-> s,
     credentials |-> "include",
     cache |-> "no-store",
     errorSchema |-> e,
     errorMessage |-> "none",
     onSpan |-> o,
     catch |-> c,
     isRetry |-> FALSE] :
    r \in Requests, s \in {"none", "mock", "failing"}, e \in {"none"},
    o \in {"none", "reqSpan"}, c \in {"none", "reqCatch"} }

\* what the retry function may be called with: retry() or retry({ headers })
RetryOptions == { UndefinedLayer, Layer(NewHeaders) }

\* what the transport may answer: the GET route answers with JSON bodies, the
\* POST route with bodies that are not JSON
Responses(params) ==
  IF params.method = "GET"
    THEN { [ok |-> TRUE, status |-> 200, statusText |-> "OK",
            jsonFails |-> FALSE, body |-> UserBody],
           [ok |-> FALSE, status |-> 401, statusText |-> "Unauthorized",
            jsonFails |-> FALSE, body |-> ErrorXBody] }
    ELSE { [ok |-> TRUE, status |-> 204, statusText |-> "No Content",
            jsonFails |-> TRUE, body |-> Undefined],
           [ok |-> FALSE, status |-> 500, statusText |-> "ISE",
            jsonFails |-> TRUE, body |-> Undefined] }

\* what the transport may throw: an Error with a message
Failures == { "Failed to fetch" }

(***************************************************************************)
(* Promises.                                                               *)
(***************************************************************************)
Pending == [state |-> "pending", value |-> None, error |-> None]
Resolved(v) == [state |-> "resolved", value |-> Some(v), error |-> None]
Rejected(e) == [state |-> "rejected", value |-> None, error |-> Some(e)]
Settled(promise) == promise.state # "pending"

Attempts == 1..Len(attempts)
HookCalls == 1..Len(hookCalls)

Init ==
  /\ instances = <<>>
  /\ d \in Dependencies
  /\ attempts = <<>>
  /\ fetchCalls = <<>>
  /\ spans = <<>>
  /\ hookCalls = <<>>

\* variant: the body is sent for mutations only
StartAttemptBodyForMutations(params, by, options) ==
  /\ attempts' = Append(attempts,
       [params |-> params, by |-> by, options |-> options, pc |-> "fetch",
        response |-> None, error |-> None, spansAtError |-> None,
        promise |-> Pending])
  /\ fetchCalls' = Append(fetchCalls,
       [url |-> params.url,
        method |-> params.method,
        headers |-> params.headers,
        body |-> IF params.body # None /\ ~isQueryMethod(params.method)
                   THEN Some(Stringify(params.body[1])) ELSE None,
        credentials |-> params.credentials,
        cache |-> params.cache])

(***************************************************************************)
(* execute, up to its first await: the handlers are resolved and the       *)
(* transport is called.  by is the hook invocation whose retry function    *)
(* started the attempt (0 for the original call) and options what the      *)
(* retry function was called with.  spansAtError is the number of events   *)
(* the sink had received when the attempt called handleError.              *)
(***************************************************************************)
StartAttempt(params, by, options) ==
  /\ attempts' = Append(attempts,
       [params |-> params, by |-> by, options |-> options, pc |-> "fetch",
        response |-> None, error |-> None, spansAtError |-> None,
        promise |-> Pending])
  /\ fetchCalls' = Append(fetchCalls,
       [url |-> params.url,
        method |-> params.method,
        headers |-> params.headers,
        body |-> IF params.body # None
                   THEN Some(Stringify(params.body[1])) ELSE None,
        credentials |-> params.credentials,
        cache |-> params.cache])

\* the original call
Execute(params) ==
  /\ attempts = <<>>
  /\ StartAttempt(params, 0, UndefinedLayer)
  /\ UNCHANGED <<instances, d, spans, hookCalls>>

\* variant: only failures are reported to the sink
spanFailuresOnly(i, status, ok, error) ==
  LET p == attempts[i].params
      onSpan == Coalesce(p.onSpan, d.onSpan)
  IN IF onSpan = "none" \/ ok THEN spans
     ELSE Append(spans,
            [sink |-> onSpan, attempt |-> i, name |-> p.name, op |-> p.op,
             url |-> p.url, method |-> p.method, status |-> status,
             ok |-> ok, error |-> error])

\* variant: a failure that goes to the hook emits no event
spanEscalatedOnly(i, status, ok, error) ==
  LET p == attempts[i].params
      onSpan == Coalesce(p.onSpan, d.onSpan)
      hooked == ~ok /\ ~p.isRetry /\ Coalesce(p.catch, d.catch) # "none"
  IN IF onSpan = "none" \/ hooked THEN spans
     ELSE Append(spans,
            [sink |-> onSpan, attempt |-> i, name |-> p.name, op |-> p.op,
             url |-> p.url, method |-> p.method, status |-> status,
             ok |-> ok, error |-> error])

\* span(p): the event goes to the resolved sink, if there is one
span(i, status, ok, error) ==
  LET p == attempts[i].params
      onSpan == Coalesce(p.onSpan, d.onSpan)
  IN IF onSpan = "none" THEN spans
     ELSE Append(spans,
            [sink |-> onSpan, attempt |-> i, name |-> p.name, op |-> p.op,
             url |-> p.url, method |-> p.method, status |-> status,
             ok |-> ok, error |-> error])

\* the two branches of handleError: throw toError(error), unless the retry
\* guard is off and a hook is configured; sinkCount is the number of events
\* the sink has received when handleError is called
recover(i, error, isRetry, sinkCount) ==
  LET p == attempts[i].params
      catchHandler == Coalesce(p.catch, d.catch)
  IN IF isRetry \/ catchHandler = "none"
       THEN /\ attempts' = [attempts EXCEPT ![i].pc = "done",
                              ![i].error = Some(error),
                              ![i].spansAtError = Some(sinkCount),
                              ![i].promise = Rejected(toError(error))]
            /\ UNCHANGED hookCalls
       ELSE /\ attempts' = [attempts EXCEPT ![i].pc = "recovery",
                              ![i].error = Some(error),
                              ![i].spansAtError = Some(sinkCount)]
            /\ hookCalls' = Append(hookCalls,
                 [handler |-> catchHandler, error |-> error, owner |-> i,
                  pc |-> "running", ret |-> "none", follow |-> 0])

\* variant: no isRetry guard, a retried attempt hands its error to the hook
handleErrorAlwaysHook(i, error) ==
  recover(i, error, FALSE, Len(spans'))

\* variant: the recovery decision is made before the event is emitted
handleErrorBeforeSpan(i, error) ==
  recover(i, error, attempts[i].params.isRetry, Len(spans))

\* variant: the retry flag is kept in one place for all calls
handleErrorSharedRetryFlag(i, error) ==
  recover(i, error, \E k \in Attempts : attempts[k].params.isRetry, Len(spans'))

\* variant: without a hook the error is dropped and the call resolves
handleErrorNoHookResolves(i, error) ==
  IF ~attempts[i].params.isRetry
     /\ Coalesce(attempts[i].params.catch, d.catch) = "none"
    THEN /\ attempts' = [attempts EXCEPT ![i].pc = "done",
                           ![i].error = Some(error),
                           ![i].spansAtError = Some(Len(spans')),
                           ![i].promise = Resolved(Undefined)]
         /\ UNCHANGED hookCalls
    ELSE recover(i, error, attempts[i].params.isRetry, Len(spans'))

\* handleError(error); every call site calls span(...) first, so the sink has
\* received spans' when it runs
handleError(i, error) ==
  recover(i, error, attempts[i].params.isRetry, Len(spans'))

\* variant: the failure detail is used as the message as it is
FetchRejectsBareDetail(i, detail) ==
  /\ attempts[i].pc = "fetch"
  /\ LET error == NetworkError(detail) IN
       /\ spans' = span(i, None, FALSE, Some(error))
       /\ handleError(i, error)
  /\ UNCHANGED <<instances, d, fetchCalls>>

\* variant: the event of a transport failure carries the status 0
FetchRejectsStatusZero(i, detail) ==
  /\ attempts[i].pc = "fetch"
  /\ LET error == NetworkError("Network error: " \o detail) IN
       /\ spans' = span(i, Some(0), FALSE, Some(error))
       /\ handleError(i, error)
  /\ UNCHANGED <<instances, d, fetchCalls>>

\* the transport call throws or rejects
FetchRejects(i, detail) ==
  /\ attempts[i].pc = "fetch"
  /\ LET error == NetworkError("Network error: " \o detail) IN
       /\ spans' = span(i, None, FALSE, Some(error))
       /\ handleError(i, error)
  /\ UNCHANGED <<instances, d, fetchCalls>>

\* variant: without a response schema the raw body is returned
FetchResolvesReturnsBody(i, response) ==
  /\ attempts[i].pc = "fetch"
  /\ IF response.ok /\ attempts[i].params.schema = "none"
       THEN /\ spans' = span(i, Some(response.status), TRUE, None)
            /\ attempts' = [attempts EXCEPT ![i].pc = "done",
                              ![i].response = Some(response),
                              ![i].promise = Resolved(response.body)]
       ELSE /\ attempts' = [attempts EXCEPT ![i].pc = "body",
                              ![i].response = Some(response)]
            /\ UNCHANGED spans
  /\ UNCHANGED <<instances, d, fetchCalls, hookCalls>>

\* the transport call resolves with a response
FetchResolves(i, response) ==
  /\ attempts[i].pc = "fetch"
  /\ IF response.ok /\ attempts[i].params.schema = "none"
       THEN /\ spans' = span(i, Some(response.status), TRUE, None)
            /\ attempts' = [attempts EXCEPT ![i].pc = "done",
                              ![i].response = Some(response),
                              ![i].promise = Resolved(Undefined)]
       ELSE /\ attempts' = [attempts EXCEPT ![i].pc = "body",
                              ![i].response = Some(response)]
            /\ UNCHANGED spans
  /\ UNCHANGED <<instances, d, fetchCalls, hookCalls>>

\* response.json().catch(() => undefined)
\* variant: a body that is not JSON is kept as its text
ReadJsonAsText(response) == response.body

\* response.json().catch(() => undefined)
ReadJson(response) == IF response.jsonFails THEN Undefined ELSE response.body

\* variant: the event is built before the body is decoded and carries the
\* fallback message, the hook and the exception carry the decoded error
ErrorBodyDecodedEventFallback(i) ==
  /\ attempts[i].pc = "body"
  /\ ~attempts[i].response[1].ok
  /\ LET p == attempts[i].params
         response == attempts[i].response[1]
         decoded == decodeErrorBody(ReadJson(response), p.fallback,
                      Coalesce(p.errorSchema, d.errorSchema),
                      Coalesce(p.errorMessage, d.errorMessage))
         error == HttpError(response.status, response.statusText,
                            decoded.message, decoded.data)
         early == HttpError(response.status, response.statusText,
                            p.fallback, None)
     IN /\ spans' = span(i, Some(response.status), FALSE, Some(early))
        /\ handleError(i, error)
  /\ UNCHANGED <<instances, d, fetchCalls>>

\* variant: the error schema and the extractor are taken as a pair, both
\* from the request when it has an error schema, both from the
\* dependencies otherwise
ErrorBodyDecodedPaired(i) ==
  /\ attempts[i].pc = "body"
  /\ ~attempts[i].response[1].ok
  /\ LET p == attempts[i].params
         response == attempts[i].response[1]
         decoded == IF p.errorSchema # "none"
                      THEN decodeErrorBody(ReadJson(response), p.fallback,
                                           p.errorSchema, p.errorMessage)
                      ELSE decodeErrorBody(ReadJson(response), p.fallback,
                                           d.errorSchema, d.errorMessage)
         error == HttpError(response.status, response.statusText,
                            decoded.message, decoded.data)
     IN /\ spans' = span(i, Some(response.status), FALSE, Some(error))
        /\ handleError(i, error)
  /\ UNCHANGED <<instances, d, fetchCalls>>

\* the body of a failed response has been read and decoded
ErrorBodyDecoded(i) ==
  /\ attempts[i].pc = "body"
  /\ ~attempts[i].response[1].ok
  /\ LET p == attempts[i].params
         response == attempts[i].response[1]
         decoded == decodeErrorBody(ReadJson(response), p.fallback,
                      Coalesce(p.errorSchema, d.errorSchema),
                      Coalesce(p.errorMessage, d.errorMessage))
         error == HttpError(response.status, response.statusText,
                            decoded.message, decoded.data)
     IN /\ spans' = span(i, Some(response.status), FALSE, Some(error))
        /\ handleError(i, error)
  /\ UNCHANGED <<instances, d, fetchCalls>>

\* variant: a validated value of undefined is treated as a failure
BodyValidatedRejectsUndefined(i) ==
  /\ attempts[i].pc = "body"
  /\ attempts[i].response[1].ok
  /\ LET p == attempts[i].params
         response == attempts[i].response[1]
         result == Validate(p.schema, ReadJson(response))
     IN IF result.issues # None \/ result.value = Some(Undefined)
          THEN LET error == ParseError("Unexpected response format",
                              IF result.issues # None
                                THEN IssueMessages(result.issues[1]) ELSE <<>>)
               IN /\ spans' = span(i, Some(response.status), FALSE, Some(error))
                  /\ handleError(i, error)
          ELSE /\ spans' = span(i, Some(response.status), TRUE, None)
               /\ attempts' = [attempts EXCEPT ![i].pc = "done",
                                 ![i].promise = Resolved(result.value[1])]
               /\ UNCHANGED hookCalls
  /\ UNCHANGED <<instances, d, fetchCalls>>

\* the body of a successful response has been read and validated
BodyValidated(i) ==
  /\ attempts[i].pc = "body"
  /\ attempts[i].response[1].ok
  /\ LET p == attempts[i].params
         response == attempts[i].response[1]
         result == Validate(p.schema, ReadJson(response))
     IN IF result.issues # None
          THEN LET error == ParseError("Unexpected response format",
                                       IssueMessages(result.issues[1]))
               IN /\ spans' = span(i, Some(response.status), FALSE, Some(error))
                  /\ handleError(i, error)
          ELSE /\ spans' = span(i, Some(response.status), TRUE, None)
               /\ attempts' = [attempts EXCEPT ![i].pc = "done",
                                 ![i].promise = Resolved(result.value[1])]
               /\ UNCHANGED hookCalls
  /\ UNCHANGED <<instances, d, fetchCalls>>

(***************************************************************************)
(* The recovery hook is code of the caller.  While it runs it may call the *)
(* retry function, and it ends in one of these ways (ret):                 *)
(*   "void"    it returns undefined                                        *)
(*   "nothing" it returns a promise that resolves to undefined             *)
(*   "value"   it returns a promise that resolves to a value of its own    *)
(*   "throw"   it throws, or returns a promise that rejects, on its own    *)
(*   "retry"   it returns the promise of one of its retry() calls          *)
(***************************************************************************)

\* variant: the retried descriptor is rebuilt without the body
retryParamsDropsBody(params, retryOptions) ==
  [params EXCEPT
     !.headers = resolveHeaders(<<Layer(params.headers), retryOptions>>),
     !.body = None,
     !.isRetry = TRUE]

\* retryFn: execute({ ...params, headers: resolveHeaders(...), isRetry: true })
retryParams(params, retryOptions) ==
  [params EXCEPT
     !.headers = resolveHeaders(<<Layer(params.headers), retryOptions>>),
     !.isRetry = TRUE]

\* the hook calls the retry function (a hook that calls it again passes the
\* same options again)
HookCallsRetry(h, retryOptions) ==
  /\ hookCalls[h].pc = "running"
  /\ Len(attempts) <= MaxRetryCalls
  /\ \A k \in Attempts : attempts[k].by = h =>
        attempts[k].params =
          retryParams(attempts[hookCalls[h].owner].params, retryOptions)
  /\ StartAttempt(retryParams(attempts[hookCalls[h].owner].params, retryOptions),
                  h, retryOptions)
  /\ UNCHANGED <<instances, d, spans, hookCalls>>

\* variant: a hook that returns undefined lets the error throw
HookReturnsVoidRethrows(h) ==
  /\ hookCalls[h].pc = "running"
  /\ hookCalls' = [hookCalls EXCEPT ![h].pc = "done", ![h].ret = "void"]
  /\ attempts' = [attempts EXCEPT ![hookCalls[h].owner].pc = "done",
                    ![hookCalls[h].owner].promise =
                       Rejected(toError(hookCalls[h].error))]
  /\ UNCHANGED <<instances, d, fetchCalls, spans>>

\* variant: after a hook that returns undefined the call is left pending
HookReturnsVoidHangs(h) ==
  /\ hookCalls[h].pc = "running"
  /\ hookCalls' = [hookCalls EXCEPT ![h].pc = "done", ![h].ret = "void"]
  /\ UNCHANGED <<instances, d, attempts, fetchCalls, spans>>

\* if (result === undefined) return Promise.resolve(undefined)
HookReturnsVoid(h) ==
  /\ hookCalls[h].pc = "running"
  /\ hookCalls' = [hookCalls EXCEPT ![h].pc = "done", ![h].ret = "void"]
  /\ attempts' = [attempts EXCEPT ![hookCalls[h].owner].pc = "done",
                    ![hookCalls[h].owner].promise = Resolved(Undefined)]
  /\ UNCHANGED <<instances, d, fetchCalls, spans>>

\* variant: an exception of the hook is replaced by the throwable of the
\* error the hook was given
HookReturnsOwnThrowsClassified(h, ret) ==
  /\ hookCalls[h].pc = "running"
  /\ hookCalls' = [hookCalls EXCEPT ![h].pc = "done", ![h].ret = ret]
  /\ attempts' = [attempts EXCEPT ![hookCalls[h].owner].pc = "done",
                    ![hookCalls[h].owner].promise =
                       CASE ret = "nothing" -> Resolved(Undefined)
                         [] ret = "value" -> Resolved(SubstituteValue)
                         [] ret = "throw" -> Rejected(toError(hookCalls[h].error))]
  /\ UNCHANGED <<instances, d, fetchCalls, spans>>

\* return result, where the promise settles without the retry function
HookReturnsOwn(h, ret) ==
  /\ hookCalls[h].pc = "running"
  /\ hookCalls' = [hookCalls EXCEPT ![h].pc = "done", ![h].ret = ret]
  /\ attempts' = [attempts EXCEPT ![hookCalls[h].owner].pc = "done",
                    ![hookCalls[h].owner].promise =
                       CASE ret = "nothing" -> Resolved(Undefined)
                         [] ret = "value" -> Resolved(SubstituteValue)
                         [] ret = "throw" -> Rejected(HookException)]
  /\ UNCHANGED <<instances, d, fetchCalls, spans>>

\* return result, where result is the promise of the retried attempt k
HookReturnsRetry(h, k) ==
  /\ hookCalls[h].pc = "running"
  /\ attempts[k].by = h
  /\ hookCalls' = [hookCalls EXCEPT ![h].pc = "done", ![h].ret = "retry",
                     ![h].follow = k]
  /\ UNCHANGED <<instances, d, attempts, fetchCalls, spans>>

\* variant: the promise the hook returned is not awaited
HookPromiseSettlesEarly(h) ==
  /\ hookCalls[h].pc = "done"
  /\ hookCalls[h].ret = "retry"
  /\ attempts[hookCalls[h].owner].pc = "recovery"
  /\ attempts' = [attempts EXCEPT ![hookCalls[h].owner].pc = "done",
                    ![hookCalls[h].owner].promise =
                       IF Settled(attempts[hookCalls[h].follow].promise)
                         THEN attempts[hookCalls[h].follow].promise
                         ELSE Resolved(Undefined)]
  /\ UNCHANGED <<instances, d, fetchCalls, spans, hookCalls>>

\* variant: the promise the hook returned is awaited and its value dropped
HookPromiseSettlesDropped(h) ==
  /\ hookCalls[h].pc = "done"
  /\ hookCalls[h].ret = "retry"
  /\ attempts[hookCalls[h].owner].pc = "recovery"
  /\ Settled(attempts[hookCalls[h].follow].promise)
  /\ attempts' = [attempts EXCEPT ![hookCalls[h].owner].pc = "done",
                    ![hookCalls[h].owner].promise = Resolved(Undefined)]
  /\ UNCHANGED <<instances, d, fetchCalls, spans, hookCalls>>

\* variant: when the retried attempt fails the call rejects with the error
\* of its own attempt
HookPromiseSettlesFirstError(h) ==
  /\ hookCalls[h].pc = "done"
  /\ hookCalls[h].ret = "retry"
  /\ attempts[hookCalls[h].owner].pc = "recovery"
  /\ Settled(attempts[hookCalls[h].follow].promise)
  /\ attempts' = [attempts EXCEPT ![hookCalls[h].owner].pc = "done",
                    ![hookCalls[h].owner].promise =
                       IF attempts[hookCalls[h].follow].promise.state = "rejected"
                         THEN Rejected(toError(hookCalls[h].error))
                         ELSE attempts[hookCalls[h].follow].promise]
  /\ UNCHANGED <<instances, d, fetchCalls, spans, hookCalls>>

\* return result: the promise of the attempt follows the promise of the
\* retried attempt that its hook returned
HookPromiseSettles(h) ==
  /\ hookCalls[h].pc = "done"
  /\ hookCalls[h].ret = "retry"
  /\ attempts[hookCalls[h].owner].pc = "recovery"
  /\ Settled(attempts[hookCalls[h].follow].promise)
  /\ attempts' = [attempts EXCEPT ![hookCalls[h].owner].pc = "done",
                    ![hookCalls[h].owner].promise =
                       attempts[hookCalls[h].follow].promise]
  /\ UNCHANGED <<instances, d, fetchCalls, spans, hookCalls>>

Next ==
  \/ \E params \in ParamsSet : Execute(params)
  \/ \E i \in Attempts, detail \in Failures : FetchRejects(i, detail)
  \/ \E i \in Attempts : \E response \in Responses(attempts[i].params) :
        FetchResolves(i, response)
  \/ \E i \in Attempts : ErrorBodyDecoded(i)
  \/ \E i \in Attempts : BodyValidated(i)
  \/ \E h \in HookCalls, retryOptions \in RetryOptions : HookCallsRetry(h, retryOptions)
  \/ \E h \in HookCalls : HookReturnsVoid(h)
  \/ \E h \in HookCalls, ret \in {"nothing", "value", "throw"} : HookReturnsOwn(h, ret)
  \/ \E h \in HookCalls, k \in Attempts : HookReturnsRetry(h, k)
  \/ \E h \in HookCalls : HookPromiseSettles(h)

Spec == Init /\ [][Next]_vars

(***************************************************************************)
(* The decoding of response bodies: one call without a recovery hook, over *)
(* every combination of response schema, error schema and extractor at     *)
(* request and dependency level, and every shape of body.                  *)
(***************************************************************************)
DecodeDependencies ==
  [onSpan : {"none", "depSpan"},
   catch : {"none"},
   errorSchema : {"none", "mock", "failing"},
   errorMessage : {"none", "depMsg"}]

DecodeParamsSet ==
  { [url |-> "/api/test",
     method |-> "GET",
     op |-> "query",
     name |-> "test",
     fallback |-> "failed",
     headers |-> EmptyMap,
     body |-> None,
     schema |-> s,
     credentials |-> "include",
     cache |-> "no-store",
     errorSchema |-> e,
     errorMessage |-> m,
     onSpan |-> "none",
     catch |-> "none",
     isRetry |-> FALSE] :
    s \in {"none", "mock", "failing", "transform", "strict"},
    e \in {"none", "mock", "strict", "failing"},
    m \in {"none", "reqMsg"} }

DecodeBodies ==
  { UserBody, ErrorXBody, ErrorNumBody, EmptyBody, ApiErrorBody, JNull, JString }

\* responses with a JSON body, and responses whose body is not JSON
DecodeResponses ==
  { [ok |-> TRUE, status |-> 200, statusText |-> "OK",
     jsonFails |-> FALSE, body |-> b] : b \in DecodeBodies }
  \cup { [ok |-> FALSE, status |-> 422, statusText |-> "Unprocessable Entity",
          jsonFails |-> FALSE, body |-> b] : b \in DecodeBodies }
  \cup { [ok |-> TRUE, status |-> 200, statusText |-> "OK",
          jsonFails |-> TRUE, body |-> RawText],
         [ok |-> FALSE, status |-> 500, statusText |-> "Internal Server Error",
          jsonFails |-> TRUE, body |-> RawText] }

InitDecode ==
  /\ instances = <<>>
  /\ d \in DecodeDependencies
  /\ attempts = <<>>
  /\ fetchCalls = <<>>
  /\ spans = <<>>
  /\ hookCalls = <<>>

NextDecode ==
  \/ \E params \in DecodeParamsSet : Execute(params)
  \/ \E i \in Attempts, detail \in Failures : FetchRejects(i, detail)
  \/ \E i \in Attempts, response \in DecodeResponses : FetchResolves(i, response)
  \/ \E i \in Attempts : ErrorBodyDecoded(i)
  \/ \E i \in Attempts : BodyValidated(i)

SpecDecode == InitDecode /\ [][NextDecode]_vars

(***************************************************************************)
(* Recovery of one call whose descriptor may carry a body whatever its     *)
(* method, with the sink of the dependencies and with or without the       *)
(* recovery hook of the dependencies, for every behaviour of the hook.     *)
(***************************************************************************)
RecoveryDependencies ==
  [onSpan : {"depSpan"},
   catch : {"none", "depCatch"},
   errorSchema : {"none"},
   errorMessage : {"none"}]

RecoveryParamsSet ==
  { [url |-> "/api/test",
     method |-> m,
     op |-> IF isQueryMethod(m) THEN "query" ELSE "mutate",
     name |-> "test",
     fallback |-> "failed",
     headers |-> OldHeaders,
     body |-> b,
     schema |-> "mock",
     credentials |-> "include",
     cache |-> "no-store",
     errorSchema |-> "none",
     errorMessage |-> "none",
     onSpan |-> "none",
     catch |-> "none",
     isRetry |-> FALSE] :
    m \in {"GET", "POST"}, b \in {None, Some(EmailBody), Some(JNull)} }

InitRecovery ==
  /\ instances = <<>>
  /\ d \in RecoveryDependencies
  /\ attempts = <<>>
  /\ fetchCalls = <<>>
  /\ spans = <<>>
  /\ hookCalls = <<>>

NextRecovery ==
  \/ \E params \in RecoveryParamsSet : Execute(params)
  \/ \E i \in Attempts, detail \in Failures : FetchRejects(i, detail)
  \/ \E i \in Attempts : \E response \in Responses(attempts[i].params) :
        FetchResolves(i, response)
  \/ \E i \in Attempts : ErrorBodyDecoded(i)
  \/ \E i \in Attempts : BodyValidated(i)
  \/ \E h \in HookCalls, retryOptions \in RetryOptions : HookCallsRetry(h, retryOptions)
  \/ \E h \in HookCalls : HookReturnsVoid(h)
  \/ \E h \in HookCalls, ret \in {"nothing", "value", "throw"} : HookReturnsOwn(h, ret)
  \/ \E h \in HookCalls, k \in Attempts : HookReturnsRetry(h, k)
  \/ \E h \in HookCalls : HookPromiseSettles(h)

SpecRecovery == InitRecovery /\ [][NextRecovery]_vars

(***************************************************************************)
(* The same calls when everything execute awaits settles: the transport    *)
(* call, the reading and decoding or validation of the body, the hook and  *)
(* the promise the hook returned.  A continuation whose promise has        *)
(* settled is run by the event loop, so each of these steps is weakly      *)
(* fair, for every attempt and hook invocation there can be.               *)
(***************************************************************************)
MaxAttempts == MaxRetryCalls + 1

\* await d.sideEffects.fetch(...) settles
TransportSettles(i) ==
  /\ i \in Attempts
  /\ \/ \E detail \in Failures : FetchRejects(i, detail)
     \/ \E response \in Responses(attempts[i].params) : FetchResolves(i, response)

\* await response.json() and the await of the schema's validate settle
BodySettles(i) ==
  /\ i \in Attempts
  /\ (ErrorBodyDecoded(i) \/ BodyValidated(i))

\* the hook returns
HookReturns(h) ==
  /\ h \in HookCalls
  /\ \/ HookReturnsVoid(h)
     \/ \E ret \in {"nothing", "value", "throw"} : HookReturnsOwn(h, ret)
     \/ \E k \in Attempts : HookReturnsRetry(h, k)

\* the promise the hook returned settles the call once it has settled
ReturnedPromiseSettles(h) ==
  /\ h \in HookCalls
  /\ HookPromiseSettles(h)

Settling ==
  /\ \A i \in 1..MaxAttempts : WF_vars(TransportSettles(i)) /\ WF_vars(BodySettles(i))
  /\ \A h \in 1..MaxAttempts : WF_vars(HookReturns(h)) /\ WF_vars(ReturnedPromiseSettles(h))

\* the calls without a body
SettlingParamsSet ==
  { params \in RecoveryParamsSet : params.method = "GET" /\ params.body = None }

NextSettling ==
  \/ \E params \in SettlingParamsSet : Execute(params)
  \/ \E i \in Attempts, detail \in Failures : FetchRejects(i, detail)
  \/ \E i \in Attempts : \E response \in Responses(attempts[i].params) :
        FetchResolves(i, response)
  \/ \E i \in Attempts : ErrorBodyDecoded(i)
  \/ \E i \in Attempts : BodyValidated(i)
  \/ \E h \in HookCalls, retryOptions \in RetryOptions : HookCallsRetry(h, retryOptions)
  \/ \E h \in HookCalls : HookReturnsVoid(h)
  \/ \E h \in HookCalls, ret \in {"nothing", "value", "throw"} : HookReturnsOwn(h, ret)
  \/ \E h \in HookCalls, k \in Attempts : HookReturnsRetry(h, k)
  \/ \E h \in HookCalls : HookPromiseSettles(h)

SpecSettling == InitRecovery /\ [][NextSettling]_vars /\ Settling

(***************************************************************************)
(* Concurrent calls: two independent calls of execute on one functions     *)
(* object, "a" and "b", each started at most once and at any time.  Both   *)
(* use the recovery hook and the sink of the dependencies.                 *)
(***************************************************************************)
CallNames == {"a", "b"}

SharedDependencies ==
  [onSpan : {"depSpan"},
   catch : {"depCatch"},
   errorSchema : {"none"},
   errorMessage : {"none"}]

CallParamsSet(c) ==
  { [url |-> "/api/" \o c,
     method |-> IF c = "a" THEN "GET" ELSE "POST",
     op |-> IF c = "a" THEN "query" ELSE "mutate",
     name |-> c,
     fallback |-> "failed",
     headers |-> IF c = "a" THEN EmptyMap ELSE OldHeaders,
     body |-> IF c = "a" THEN None ELSE Some(EmailBody),
     schema |-> "mock",
     credentials |-> "include",
     cache |-> "no-store",
     errorSchema |-> "none",
     errorMessage |-> "none",
     onSpan |-> "none",
     catch |-> "none",
     isRetry |-> FALSE] }

InitConcurrent ==
  /\ instances = <<>>
  /\ d \in SharedDependencies
  /\ attempts = <<>>
  /\ fetchCalls = <<>>
  /\ spans = <<>>
  /\ hookCalls = <<>>

\* a call of execute by the caller, while other calls may be in flight
ExecuteCall(params) ==
  /\ \A i \in Attempts : attempts[i].params.name # params.name
  /\ StartAttempt(params, 0, UndefinedLayer)
  /\ UNCHANGED <<instances, d, spans, hookCalls>>

NextConcurrent ==
  \/ \E c \in CallNames : \E params \in CallParamsSet(c) : ExecuteCall(params)
  \/ \E i \in Attempts, detail \in Failures : FetchRejects(i, detail)
  \/ \E i \in Attempts : \E response \in Responses(attempts[i].params) :
        FetchResolves(i, response)
  \/ \E i \in Attempts : ErrorBodyDecoded(i)
  \/ \E i \in Attempts : BodyValidated(i)
  \/ \E h \in HookCalls : HookCallsRetry(h, Layer(NewHeaders))
  \/ \E h \in HookCalls : HookReturnsVoid(h)
  \/ \E h \in HookCalls : HookReturnsOwn(h, "value")
  \/ \E h \in HookCalls, k \in Attempts : HookReturnsRetry(h, k)
  \/ \E h \in HookCalls : HookPromiseSettles(h)

SpecConcurrent == InitConcurrent /\ [][NextConcurrent]_vars

(***************************************************************************)
(* Vocabulary of the properties.                                           *)
(***************************************************************************)
\* the sink attempt i reports to
SinkOf(i) == Coalesce(attempts[i].params.onSpan, d.onSpan)
\* the events attempt i has emitted
SpansOf(i) == { n \in 1..Len(spans) : spans[n].attempt = i }
\* the attempts started by the retry function handed to hook invocation h
RetriesOf(h) == { k \in Attempts : attempts[k].by = h }
\* the outcome of attempt i itself is known: it completed or called handleError
OutcomeKnown(i) == attempts[i].pc \in {"recovery", "done"}
\* the original call has settled
OriginalSettled == attempts # <<>> /\ attempts[1].pc = "done"
\* the classified errors the attempts of this call have built
ProducedErrors == { attempts[i].error[1] : i \in { j \in Attempts : attempts[j].error # None } }
ErrorKinds == {"network", "http", "parse"}
\* the value the response schema makes of the response of attempt i
ValidatedValue(i) ==
  Validate(attempts[i].params.schema, ReadJson(attempts[i].response[1])).value[1]

(***************************************************************************)
(* C1: for every behaviour of the recovery hook, the transport function is *)
(* called at most twice per original call.                                 *)
(***************************************************************************)
C1_TransportCalledAtMostTwice == Len(fetchCalls) <= 2

(***************************************************************************)
(* C2: an attempt whose retry flag is true never invokes the recovery hook *)
(* and never starts another attempt; its failure is thrown as the          *)
(* converted exception.  So the hook is invoked at most once per original  *)
(* call, and when the hook returns its one retry() and both attempts get a *)
(* failure status, there are 2 transport calls, 1 hook invocation and the  *)
(* original call rejects with an HTTP error.                               *)
(***************************************************************************)
C2_RetriedAttemptEscalates ==
  /\ \A h \in HookCalls : ~attempts[hookCalls[h].owner].params.isRetry
  /\ \A k \in Attempts : attempts[k].by # 0 =>
        ~attempts[hookCalls[attempts[k].by].owner].params.isRetry
  /\ \A i \in Attempts : (attempts[i].params.isRetry /\ attempts[i].error # None) =>
        /\ attempts[i].pc = "done"
        /\ attempts[i].promise.state = "rejected"
        /\ attempts[i].promise.error[1].fetchError = attempts[i].error
  /\ Len(hookCalls) <= 1
  /\ \A h \in HookCalls :
       ( /\ hookCalls[h].ret = "retry"
         /\ Cardinality(RetriesOf(h)) = 1
         /\ attempts[1].error # None /\ attempts[1].error[1].type = "http"
         /\ attempts[hookCalls[h].follow].error # None
         /\ attempts[hookCalls[h].follow].error[1].type = "http"
         /\ OriginalSettled )
       => /\ Len(fetchCalls) = 2
          /\ Len(hookCalls) = 1
          /\ attempts[1].promise.state = "rejected"
          /\ attempts[1].promise.error[1].fetchError # None
          /\ attempts[1].promise.error[1].fetchError[1].type = "http"

C2_Witness ==
  /\ OriginalSettled
  /\ Len(hookCalls) = 1 /\ hookCalls[1].ret = "retry"
  /\ Len(attempts) = 2
  /\ attempts[1].error # None /\ attempts[1].error[1].type = "http"
  /\ attempts[2].error # None /\ attempts[2].error[1].type = "http"
  /\ attempts[1].promise.state = "rejected"

(***************************************************************************)
(* C3: with a sink configured, every attempt emits exactly one event once  *)
(* its outcome is known (none before, never two), and when every attempt   *)
(* of the call has settled the number of events equals the number of       *)
(* transport calls.                                                        *)
(***************************************************************************)
C3_OneEventPerAttempt ==
  /\ \A i \in Attempts : SinkOf(i) # "none" =>
        Cardinality(SpansOf(i)) = IF OutcomeKnown(i) THEN 1 ELSE 0
  /\ ( /\ attempts # <<>>
       /\ SinkOf(1) # "none"
       /\ \A i \in Attempts : attempts[i].pc = "done" )
     => Len(spans) = Len(fetchCalls)

C3_Witness ==
  /\ Len(attempts) = 3
  /\ SinkOf(1) # "none"
  /\ \A i \in Attempts : attempts[i].pc = "done"
  /\ Len(spans) = 3
  /\ \E n \in 1..3 : spans[n].ok
  /\ \E n \in 1..3 : ~spans[n].ok /\ spans[n].error[1].type = "network"

(***************************************************************************)
(* C4: on every failing attempt the event carrying the classified error    *)
(* has reached the sink when the recovery decision is made (the hook is    *)
(* invoked or the exception thrown), and it stays there when the hook      *)
(* swallows the error.                                                     *)
(***************************************************************************)
C4_ErrorObservedBeforeRecovery ==
  \A i \in Attempts : (attempts[i].error # None /\ SinkOf(i) # "none") =>
    \E n \in 1..attempts[i].spansAtError[1] :
      /\ n <= Len(spans)
      /\ spans[n].attempt = i
      /\ ~spans[n].ok
      /\ spans[n].error = attempts[i].error

C4_Witness ==
  /\ OriginalSettled
  /\ SinkOf(1) # "none"
  /\ Len(hookCalls) = 1 /\ hookCalls[1].ret = "void"
  /\ attempts[1].promise = Resolved(Undefined)
  /\ Len(spans) = 1 /\ ~spans[1].ok /\ spans[1].error = Some(hookCalls[1].error)

ExpectedKind(i) ==
  IF attempts[i].response = None THEN "network"
  ELSE IF ~attempts[i].response[1].ok THEN "http"
  ELSE IF /\ attempts[i].params.schema # "none"
          /\ Validate(attempts[i].params.schema,
                      ReadJson(attempts[i].response[1])).issues # None
         THEN "parse"
  ELSE "none"

C6_ErrorKindFixedByOutcome ==
  \A i \in Attempts :
    /\ ~OutcomeKnown(i) => attempts[i].error = None
    /\ OutcomeKnown(i) =>
         ExpectedKind(i) =
           IF attempts[i].error = None THEN "none" ELSE attempts[i].error[1].type
    /\ Cardinality({ n \in SpansOf(i) : spans[n].error # None }) <= 1

C6_Witness ==
  /\ Len(attempts) = 3
  /\ \A i \in Attempts : OutcomeKnown(i)
  /\ attempts[1].error # None /\ attempts[1].error[1].type = "parse"
  /\ attempts[2].error # None /\ attempts[2].error[1].type = "network"
  /\ attempts[3].error # None /\ attempts[3].error[1].type = "http"

C8_VoidHandlerLetsErrorThrow ==
  \A h \in HookCalls : (hookCalls[h].pc = "done" /\ hookCalls[h].ret = "void") =>
    /\ Len(hookCalls) = 1
    /\ attempts[hookCalls[h].owner].promise.state = "rejected"
    /\ attempts[hookCalls[h].owner].promise.error[1].message = hookCalls[h].error.message

(***************************************************************************)
(* C9: when the hook returns a defined value, that value is the result of  *)
(* the call; when it returns retry(...) and the retried attempt succeeds   *)
(* with a response schema, the call resolves with the retried attempt's    *)
(* validated value and the first error is not thrown.                      *)
(***************************************************************************)
C9_HookValueIsResult ==
  \A h \in HookCalls :
    /\ (hookCalls[h].pc = "done" /\ hookCalls[h].ret = "value") =>
          attempts[hookCalls[h].owner].promise = Resolved(SubstituteValue)
    /\ ( /\ hookCalls[h].ret = "retry"
         /\ attempts[hookCalls[h].owner].pc = "done"
         /\ attempts[hookCalls[h].follow].promise.state = "resolved"
         /\ attempts[hookCalls[h].follow].params.schema # "none" )
       => /\ attempts[hookCalls[h].owner].promise.state = "resolved"
          /\ attempts[hookCalls[h].owner].promise.value =
               Some(ValidatedValue(hookCalls[h].follow))

C9_Witness ==
  /\ OriginalSettled
  /\ Len(hookCalls) = 1 /\ hookCalls[1].ret = "retry"
  /\ attempts[1].error # None /\ attempts[1].error[1].type = "http"
  /\ attempts[hookCalls[1].follow].params.schema = "mock"
  /\ attempts[1].promise = Resolved(UserBody)

(***************************************************************************)
(* C10: the headers the transport receives on a retried attempt are the    *)
(* merge of the original attempt's headers and the replacement headers     *)
(* passed to retry: every replacement key has the replacement's value and  *)
(* every original key the replacement does not mention keeps its value.    *)
(***************************************************************************)
C10_RetryHeadersMerged ==
  \A k \in Attempts : attempts[k].by # 0 =>
    LET original == attempts[hookCalls[attempts[k].by].owner].params.headers
        replacement == IF attempts[k].options.defined
                         THEN attempts[k].options.map ELSE EmptyMap
        sent == fetchCalls[k].headers
    IN /\ DOMAIN sent = DOMAIN original \cup DOMAIN replacement \cup {"Accept"}
       /\ \A key \in DOMAIN replacement : sent[key] = replacement[key]
       /\ \A key \in DOMAIN original \ DOMAIN replacement : sent[key] = original[key]

C10_Witness ==
  /\ Len(fetchCalls) = 2
  /\ attempts[2].by = 1
  /\ fetchCalls[1].headers = OldHeaders
  /\ attempts[2].options = Layer(NewHeaders)
  /\ fetchCalls[2].headers["Authorization"] = "Bearer new-token"
  /\ fetchCalls[2].headers["X-Client"] = "web"

(***************************************************************************)
(* C11: the descriptor of a retried attempt equals the original one in     *)
(* every field but headers and the retry flag, which is true; so the       *)
(* retried transport call has the URL, method, serialized body and         *)
(* transport options of the first.                                         *)
(***************************************************************************)
C11_RetryKeepsDescriptor ==
  \A k \in Attempts : attempts[k].by # 0 =>
    LET o == hookCalls[attempts[k].by].owner IN
      /\ \A f \in DOMAIN attempts[k].params \ {"headers", "isRetry"} :
            attempts[k].params[f] = attempts[o].params[f]
      /\ attempts[k].params.isRetry
      /\ fetchCalls[k].url = fetchCalls[o].url
      /\ fetchCalls[k].method = fetchCalls[o].method
      /\ fetchCalls[k].body = fetchCalls[o].body
      /\ fetchCalls[k].credentials = fetchCalls[o].credentials
      /\ fetchCalls[k].cache = fetchCalls[o].cache

C11_Witness ==
  /\ Len(fetchCalls) = 2
  /\ attempts[2].by = 1
  /\ fetchCalls[1].method = "POST"
  /\ fetchCalls[1].body = Some("{\"email\":\"a@b.com\"}")
  /\ fetchCalls[2].body = fetchCalls[1].body
  /\ fetchCalls[2].headers # fetchCalls[1].headers

(***************************************************************************)
(* C12: when no recovery hook is configured, at request or dependency      *)
(* level, a failed attempt escalates: the call rejects with the converted  *)
(* exception carrying that attempt's classified error, after exactly one   *)
(* transport call and without any hook invocation.                         *)
(***************************************************************************)
C12_NoHookEscalates ==
  ( /\ attempts # <<>>
    /\ attempts[1].params.catch = "none" /\ d.catch = "none"
    /\ attempts[1].error # None )
  => /\ attempts[1].pc = "done"
     /\ attempts[1].promise.state = "rejected"
     /\ attempts[1].promise.error[1].fetchError = attempts[1].error
     /\ attempts[1].promise.error[1].message = attempts[1].error[1].message
     /\ attempts[1].promise.error[1].name = "FetchError." \o attempts[1].error[1].type
     /\ Len(fetchCalls) = 1
     /\ hookCalls = <<>>

C12_Witness ==
  /\ attempts # <<>>
  /\ attempts[1].params.catch = "none" /\ d.catch = "none"
  /\ attempts[1].error # None /\ attempts[1].error[1].type = "http"
  /\ attempts[1].promise.state = "rejected"
  /\ attempts[1].promise.error[1].name = "FetchError.http"

(***************************************************************************)
(* C13: an attempt whose response has the success flag and that has no     *)
(* response schema resolves with undefined, emits exactly one event, with  *)
(* ok = true, the response's status and no error, and does not invoke the  *)
(* recovery hook.                                                          *)
(***************************************************************************)
C13_SuccessWithoutSchema ==
  \A i \in Attempts :
    ( /\ attempts[i].response # None
      /\ attempts[i].response[1].ok
      /\ attempts[i].params.schema = "none" )
    => /\ attempts[i].pc = "done"
       /\ attempts[i].promise = Resolved(Undefined)
       /\ attempts[i].error = None
       /\ \A h \in HookCalls : hookCalls[h].owner # i
       /\ SinkOf(i) # "none" =>
            /\ Cardinality(SpansOf(i)) = 1
            /\ \A n \in SpansOf(i) :
                 /\ spans[n].ok
                 /\ spans[n].status = Some(attempts[i].response[1].status)
                 /\ spans[n].error = None

C13_Witness ==
  /\ Len(attempts) = 1
  /\ attempts[1].params.schema = "none"
  /\ attempts[1].params.catch = "reqCatch"
  /\ attempts[1].promise = Resolved(Undefined)
  /\ hookCalls = <<>>
  /\ Len(spans) = 1 /\ spans[1].ok /\ spans[1].status = Some(200)

\* attempt i got a response without the success flag and has decoded its body
FailedResponseDecoded(i) ==
  /\ attempts[i].response # None
  /\ ~attempts[i].response[1].ok
  /\ OutcomeKnown(i)
\* attempt i got a response with the success flag and has validated its body
ResponseValidated(i) ==
  /\ attempts[i].response # None
  /\ attempts[i].response[1].ok
  /\ attempts[i].params.schema # "none"
  /\ OutcomeKnown(i)
\* the body of the response of attempt i as response.json() gives it
ParsedBody(i) ==
  IF attempts[i].response[1].jsonFails THEN Undefined ELSE attempts[i].response[1].body
\* the positions of string-typed fields named error in a parsed body
ErrorStrings(body) ==
  { n \in 1..Len(body.fields) :
      body.fields[n][1] = "error" /\ body.fields[n][2] = "string" }
\* what reading the property error of a parsed body gives, as text
ErrorText(body) ==
  LET named == { n \in 1..Len(body.fields) : body.fields[n][1] = "error" }
  IN IF named # {} THEN body.fields[CHOOSE n \in named : TRUE][3] ELSE "undefined"
\* the error schema and the extractor in force for attempt i
ErrorSchemaOf(i) ==
  IF attempts[i].params.errorSchema # "none"
    THEN attempts[i].params.errorSchema ELSE d.errorSchema
ErrorMessageOf(i) ==
  IF attempts[i].params.errorMessage # "none"
    THEN attempts[i].params.errorMessage ELSE d.errorMessage
\* the messages an extractor can return
ExtractorResults ==
  { fn \o ":" \o text : fn \in {"reqMsg", "depMsg"},
                         text \in {"X", "5", "taken", "undefined"} }

(***************************************************************************)
(* C14: with a response schema and a response with the success flag, the   *)
(* call resolves with the value the schema returned (the transformed one,  *)
(* not the raw body) when the body validates; when validation reports      *)
(* issues a Parse error is built whose message is 'Unexpected response     *)
(* format' and whose issues are the schema's issue messages in order.      *)
(***************************************************************************)
C14_ValidatedValueOrParseError ==
  \A i \in Attempts : ResponseValidated(i) =>
    LET schema == attempts[i].params.schema
        body == ParsedBody(i)
        accepts == \/ schema \in {"mock", "transform"}
                   \/ schema = "strict" /\ body.type = "object"
                                        /\ \E n \in 1..Len(body.fields) :
                                              body.fields[n][1] = "code"
    IN IF accepts
         THEN /\ attempts[i].error = None
              /\ attempts[i].promise =
                   Resolved(IF schema = "transform"
                              THEN JObj(body.fields \o << <<"validated", "string", "yes">> >>)
                              ELSE body)
         ELSE /\ attempts[i].error # None
              /\ attempts[i].error[1].type = "parse"
              /\ attempts[i].error[1].message = "Unexpected response format"
              /\ attempts[i].error[1].issues =
                   Some(IF schema = "strict"
                          THEN <<"code is required", "expected an api error">>
                          ELSE <<"expected string">>)
              /\ attempts[i].promise.state = "rejected"
              /\ attempts[i].promise.error[1].fetchError = attempts[i].error

C14_Witness ==
  /\ Len(attempts) = 1
  /\ attempts[1].params.schema = "strict"
  /\ attempts[1].response # None
  /\ attempts[1].response[1].body = UserBody
  /\ attempts[1].error # None
  /\ attempts[1].error[1].issues = Some(<<"code is required", "expected an api error">>)

(***************************************************************************)
(* C15: on a failed response with no error schema configured, the HTTP     *)
(* error's message is the body's error string when the parsed body is an   *)
(* object with a string-typed field error, and the fallback otherwise      *)
(* (field missing or not a string, body null, not an object or not JSON);  *)
(* no data is attached in either case.                                     *)
(***************************************************************************)
C15_DefaultErrorDecoding ==
  \A i \in Attempts :
    ( /\ FailedResponseDecoded(i)
      /\ attempts[i].params.errorSchema = "none" /\ d.errorSchema = "none" )
    => LET body == ParsedBody(i)
           e == attempts[i].error[1]
       IN /\ e.type = "http"
          /\ e.data = None
          /\ e.message =
               IF body.type = "object" /\ ErrorStrings(body) # {}
                 THEN body.fields[CHOOSE n \in ErrorStrings(body) : TRUE][3]
                 ELSE attempts[i].params.fallback

C15_Witness ==
  /\ Len(attempts) = 1
  /\ FailedResponseDecoded(1)
  /\ attempts[1].params.errorSchema = "none" /\ d.errorSchema = "none"
  /\ attempts[1].response[1].body = ErrorNumBody
  /\ attempts[1].error[1].message = "failed"

(***************************************************************************)
(* C16: on a failed response whose body the configured error schema        *)
(* rejects, the HTTP error's message is the fallback and no data is        *)
(* attached, even when the body has a string error field; the attempt      *)
(* still ends with exactly one error, an HTTP error with the response's    *)
(* status, thrown as the converted exception.                              *)
(***************************************************************************)
C16_ErrorSchemaMismatchFallsBack ==
  \A i \in Attempts :
    ( /\ FailedResponseDecoded(i)
      /\ \/ ErrorSchemaOf(i) = "failing"
         \/ /\ ErrorSchemaOf(i) = "strict"
            /\ ~(\E n \in 1..Len(ParsedBody(i).fields) :
                    ParsedBody(i).fields[n][1] = "code") )
    => /\ attempts[i].error =
            Some(HttpError(attempts[i].response[1].status,
                           attempts[i].response[1].statusText,
                           attempts[i].params.fallback, None))
       /\ attempts[i].promise = Rejected(toError(attempts[i].error[1]))
       /\ SinkOf(i) # "none" =>
            /\ Cardinality(SpansOf(i)) = 1
            /\ \A n \in SpansOf(i) : spans[n].error = attempts[i].error

C16_Witness ==
  /\ Len(attempts) = 1
  /\ FailedResponseDecoded(1)
  /\ ErrorSchemaOf(1) = "strict"
  /\ attempts[1].params.errorMessage = "reqMsg"
  /\ attempts[1].response[1].body = ErrorXBody
  /\ attempts[1].error[1].message = "failed"
  /\ attempts[1].error[1].status = Some(422)
  /\ Len(spans) = 1

(***************************************************************************)
(* C17: on a failed response whose body the configured error schema        *)
(* accepts, the HTTP error's data is the schema's decoded value and its    *)
(* message is the extractor's result on that value when an extractor is    *)
(* configured, the fallback otherwise.  In every other case (no error      *)
(* schema, or a schema that reports issues) the message is not a result    *)
(* of the extractor.                                                       *)
(***************************************************************************)
C17_ErrorSchemaMatchDecodes ==
  \A i \in Attempts : FailedResponseDecoded(i) =>
    LET body == ParsedBody(i)
        e == attempts[i].error[1]
        hasCode == \E n \in 1..Len(body.fields) : body.fields[n][1] = "code"
        accepts == \/ ErrorSchemaOf(i) = "mock"
                   \/ ErrorSchemaOf(i) = "strict" /\ body.type = "object" /\ hasCode
    IN IF accepts
         THEN /\ e.type = "http"
              /\ e.data = Some(body)
              /\ e.message =
                   IF ErrorMessageOf(i) = "none"
                     THEN attempts[i].params.fallback
                     ELSE ErrorMessageOf(i) \o ":" \o
                          ErrorText(body)
         ELSE /\ e.data = None
              /\ e.message \notin ExtractorResults

C17_Witness ==
  /\ Len(attempts) = 1
  /\ FailedResponseDecoded(1)
  /\ attempts[1].params.errorSchema = "strict"
  /\ attempts[1].params.errorMessage = "reqMsg"
  /\ attempts[1].response[1].body = ApiErrorBody
  /\ attempts[1].error[1].data = Some(ApiErrorBody)
  /\ attempts[1].error[1].message = "reqMsg:taken"

(***************************************************************************)
(* C18: when a request-level and a dependency-level recovery hook are both *)
(* given, a failing attempt invokes the request-level hook, exactly once,  *)
(* and the dependency-level hook is never invoked.                         *)
(***************************************************************************)
C18_RequestHookWins ==
  ( /\ attempts # <<>>
    /\ attempts[1].params.catch # "none" /\ d.catch # "none" )
  => /\ \A h \in HookCalls : hookCalls[h].handler = attempts[1].params.catch
     /\ \A h \in HookCalls : hookCalls[h].handler # d.catch
     /\ Len(hookCalls) = IF attempts[1].error # None THEN 1 ELSE 0

C18_Witness ==
  /\ attempts # <<>>
  /\ attempts[1].params.catch = "reqCatch" /\ d.catch = "depCatch"
  /\ Len(hookCalls) = 1 /\ hookCalls[1].handler = "reqCatch"
  /\ hookCalls[1].pc = "done"

(***************************************************************************)
(* C19: when an error schema and an extractor are given both at request    *)
(* and at dependency level, a failed response is decoded with the          *)
(* request-level schema and its message is computed by the request-level   *)
(* extractor; the dependency-level ones are not used.                      *)
(***************************************************************************)
C19_RequestErrorDecodingWins ==
  \A i \in Attempts :
    ( /\ FailedResponseDecoded(i)
      /\ attempts[i].params.errorSchema # "none" /\ d.errorSchema # "none"
      /\ attempts[i].params.errorMessage # "none" /\ d.errorMessage # "none" )
    => LET p == attempts[i].params
           body == ParsedBody(i)
           e == attempts[i].error[1]
           hasCode == \E n \in 1..Len(body.fields) : body.fields[n][1] = "code"
           accepts == \/ p.errorSchema = "mock"
                      \/ p.errorSchema = "strict" /\ body.type = "object" /\ hasCode
       IN IF accepts
            THEN /\ e.data = Some(body)
                 /\ e.message =
                      p.errorMessage \o ":" \o
                      ErrorText(body)
            ELSE /\ e.data = None
                 /\ e.message = p.fallback

C19_Witness ==
  /\ Len(attempts) = 1
  /\ FailedResponseDecoded(1)
  /\ attempts[1].params.errorSchema = "strict" /\ d.errorSchema = "mock"
  /\ attempts[1].params.errorMessage = "reqMsg" /\ d.errorMessage = "depMsg"
  /\ attempts[1].response[1].body = ErrorXBody
  /\ attempts[1].error[1].message = "failed"
  /\ attempts[1].error[1].data = None

(***************************************************************************)
(* C20: a response body that cannot be parsed never fails the call on its  *)
(* own.  On a failed response it is treated as undefined and, with no      *)
(* error schema, the HTTP error has the fallback message; on a successful  *)
(* response with a response schema the schema validates undefined and      *)
(* decides the outcome, the value it returns or a Parse error.             *)
(***************************************************************************)
C20_UnparsableBodyIsUndefined ==
  \A i \in Attempts :
    ( /\ attempts[i].response # None
      /\ attempts[i].response[1].jsonFails
      /\ OutcomeKnown(i) )
    => LET p == attempts[i].params
           response == attempts[i].response[1]
       IN /\ attempts[i].error # None => attempts[i].error[1].type \in {"http", "parse"}
          /\ attempts[i].promise.state = "rejected" =>
               attempts[i].promise.error[1].fetchError = attempts[i].error
          /\ ( /\ ~response.ok
               /\ p.errorSchema = "none" /\ d.errorSchema = "none" )
             => attempts[i].error =
                  Some(HttpError(response.status, response.statusText,
                                 p.fallback, None))
          /\ (~response.ok /\ attempts[i].error[1].data # None)
             => attempts[i].error[1].data = Some(Undefined)
          /\ (response.ok /\ p.schema # "none")
             => CASE p.schema = "mock" -> attempts[i].promise = Resolved(Undefined)
                  [] p.schema = "transform" ->
                       attempts[i].promise =
                         Resolved(JObj(<< <<"validated", "string", "yes">> >>))
                  [] OTHER ->
                       /\ attempts[i].error # None
                       /\ attempts[i].error[1].type = "parse"

C20_Witness ==
  /\ Len(attempts) = 1
  /\ attempts[1].response # None
  /\ attempts[1].response[1].jsonFails /\ ~attempts[1].response[1].ok
  /\ attempts[1].response[1].body = RawText
  /\ d.errorSchema = "none" /\ attempts[1].params.errorSchema = "none"
  /\ attempts[1].error # None
  /\ attempts[1].error[1].message = "failed"
  /\ attempts[1].promise.state = "rejected"

(***************************************************************************)
(* The builder: createComposableFetcher(config) makes an instance, which   *)
(* is its configuration (the closure holds nothing else); configure(next)  *)
(* makes another one; url(u).headers(h).body(b).schema(s).run(method)      *)
(* builds the dependencies and the descriptor and calls execute.  A        *)
(* configuration is a map from the keys that are present to their values;  *)
(* the value of headers is a header layer, which may be undefined.         *)
(* Instances are kept with what they were made from (from is the instance  *)
(* configure was called on, 0 for createComposableFetcher, and given the   *)
(* configuration passed) and with the requests run through them.           *)
(***************************************************************************)
AppHeaders == ("Authorization" :> "Bearer old-token") @@ ("X-App" :> "my-app")
PlainTextHeaders == "Content-Type" :> "text/plain"
LowerAcceptHeaders == "accept" :> "text/html"
AcceptHtmlHeaders == "Accept" :> "text/html"
DerivedHeaders == "X-Derived" :> "yes"
XmlHeaders == ("Content-Type" :> "application/xml") @@ ("Authorization" :> "Bearer new-token")

NoConfig == [k \in {} |-> ""]

Configs ==
  { NoConfig }
  \cup { "headers" :> Layer(h) :
           h \in {AppHeaders, PlainTextHeaders, LowerAcceptHeaders, AcceptHtmlHeaders} }
  \cup { ("headers" :> Layer(AppHeaders)) @@ ("onSpan" :> "cfgSpan")
         @@ ("credentials" :> "same-origin") }

NextConfigs ==
  { "headers" :> Layer(DerivedHeaders),
    "headers" :> UndefinedLayer,
    ("onSpan" :> "derivedSpan") @@ ("credentials" :> "omit") }

BuilderSettings ==
  [url : {"/api/test"},
   name : {""},
   fallback : {""},
   headers : {UndefinedLayer, Layer(XmlHeaders), Layer(LowerAcceptHeaders)},
   body : {Some(EmailBody)},
   schema : {"mock"}]

\* HttpMethod, the methods run() accepts
MethodTokens == {"GET", "HEAD", "OPTIONS", "POST", "PUT", "PATCH", "DELETE"}

\* config.key, "none" or an undefined layer when the key is absent
ConfigHeaders(config) ==
  IF "headers" \in DOMAIN config THEN config["headers"] ELSE UndefinedLayer
ConfigValue(config, key, default) ==
  IF key \in DOMAIN config THEN config[key] ELSE default

\* { ...config, ...next }
ConfigMerge(config, next) ==
  [k \in DOMAIN config \cup DOMAIN next |->
     IF k \in DOMAIN next THEN next[k] ELSE config[k]]

NoDependencies ==
  [onSpan |-> "none", catch |-> "none", errorSchema |-> "none",
   errorMessage |-> "none"]

InitBuilder ==
  /\ \E config \in Configs :
        instances = << [config |-> config, from |-> 0, given |-> config,
                        runs |-> <<>>] >>
  /\ d = NoDependencies
  /\ attempts = <<>>
  /\ fetchCalls = <<>>
  /\ spans = <<>>
  /\ hookCalls = <<>>

\* variant: next is merged into the configuration of the instance itself
ConfigureInPlace(k, next) ==
  /\ Len(instances) < MaxInstances
  /\ instances' =
       Append([instances EXCEPT ![k].config = ConfigMerge(instances[k].config, next)],
              [config |-> ConfigMerge(instances[k].config, next),
               from |-> k, given |-> next, runs |-> <<>>])
  /\ UNCHANGED <<d, attempts, fetchCalls, spans, hookCalls>>

\* instance k .configure(next)
Configure(k, next) ==
  /\ Len(instances) < MaxInstances
  /\ instances' =
       Append(instances,
              [config |-> ConfigMerge(instances[k].config, next),
               from |-> k, given |-> next, runs |-> <<>>])
  /\ UNCHANGED <<d, attempts, fetchCalls, spans, hookCalls>>

\* a value set on the builder, "none" when the setter was not called
Setting(b, key) ==
  IF key \in DOMAIN b THEN b[key] ELSE "none"

\* the dependencies run() builds: the handler set with onError() or in the
\* configuration is stored under the key onError; no key catch is written
RunDependencies(config, b) ==
  [onSpan |-> ConfigValue(config, "onSpan", "none"),
   onError |-> Coalesce(Setting(b, "onError"),
                        ConfigValue(config, "onError", "none")),
   catch |-> "none",
   errorSchema |-> Coalesce(Setting(b, "errorSchema"),
                            ConfigValue(config, "errorSchema", "none")),
   errorMessage |-> Coalesce(Setting(b, "errorMessage"),
                             ConfigValue(config, "errorMessage", "none"))]

\* variant: the body set on the builder is passed whatever the method
RunParamsBodyAlways(config, b, method) ==
  LET isMutation == ~isQueryMethod(method) IN
  [url |-> b.url,
   method |-> method,
   op |-> IF isMutation THEN "mutate" ELSE "query",
   name |-> IF b.name # "" THEN b.name ELSE method \o " " \o b.url,
   fallback |-> IF b.fallback # "" THEN b.fallback
                ELSE "Request failed: " \o b.url,
   headers |-> resolveHeaders(
                 << ConfigHeaders(config), b.headers,
                    IF isMutation
                      THEN Layer("Content-Type" :> "application/json")
                      ELSE UndefinedLayer >>),
   body |-> b.body,
   schema |-> b.schema,
   credentials |-> ConfigValue(config, "credentials", "include"),
   cache |-> ConfigValue(config, "cache", "no-store"),
   errorSchema |-> "none",
   errorMessage |-> "none",
   onSpan |-> "none",
   catch |-> "none",
   isRetry |-> FALSE]

\* the descriptor run() passes to execute
RunParams(config, b, method) ==
  LET isMutation == ~isQueryMethod(method) IN
  [url |-> b.url,
   method |-> method,
   op |-> IF isMutation THEN "mutate" ELSE "query",
   name |-> IF b.name # "" THEN b.name ELSE method \o " " \o b.url,
   fallback |-> IF b.fallback # "" THEN b.fallback
                ELSE "Request failed: " \o b.url,
   headers |-> resolveHeaders(
                 << ConfigHeaders(config), b.headers,
                    IF isMutation
                      THEN Layer("Content-Type" :> "application/json")
                      ELSE UndefinedLayer >>),
   body |-> IF isMutation THEN b.body ELSE None,
   schema |-> b.schema,
   credentials |-> ConfigValue(config, "credentials", "include"),
   cache |-> ConfigValue(config, "cache", "no-store"),
   errorSchema |-> "none",
   errorMessage |-> "none",
   onSpan |-> "none",
   catch |-> "none",
   isRetry |-> FALSE]

\* instance k .url(b.url) ... .run(method)
Run(k, b, method) ==
  /\ attempts = <<>>
  /\ d' = RunDependencies(instances[k].config, b)
  /\ StartAttempt(RunParams(instances[k].config, b, method), 0, UndefinedLayer)
  /\ instances' = [instances EXCEPT ![k].runs =
                      Append(@, [attempt |-> Len(attempts) + 1,
                                 settings |-> b, method |-> method])]
  /\ UNCHANGED <<spans, hookCalls>>

NextBuilder ==
  \/ \E k \in 1..Len(instances), next \in NextConfigs : Configure(k, next)
  \/ \E k \in 1..Len(instances), b \in BuilderSettings, method \in MethodTokens :
        Run(k, b, method)
  \/ \E i \in Attempts, detail \in Failures : FetchRejects(i, detail)
  \/ \E i \in Attempts : \E response \in Responses(attempts[i].params) :
        FetchResolves(i, response)
  \/ \E i \in Attempts : ErrorBodyDecoded(i)
  \/ \E i \in Attempts : BodyValidated(i)

SpecBuilder == InitBuilder /\ [][NextBuilder]_vars

(***************************************************************************)
(* Requests run through the builder of an instance whose configuration may *)
(* carry an error handler, with or without a handler and a body set on the *)
(* builder.  The handlers travel to execute in the dependencies run()      *)
(* builds; execute looks for its handler in params.catch and in            *)
(* d.sideEffects.catch.                                                    *)
(***************************************************************************)
FacadeConfigs ==
  { NoConfig,
    "onError" :> "cfgHandler",
    ("onError" :> "cfgHandler") @@ ("onSpan" :> "cfgSpan"),
    "headers" :> Layer(PlainTextHeaders) }

FacadeSettings ==
  [url : {"/api/test"},
   name : {""},
   fallback : {""},
   headers : {UndefinedLayer, Layer(PlainTextHeaders)},
   body : {None, Some(EmailBody)},
   schema : {"mock"},
   onError : {"none", "builderHandler"}]

InitFacade ==
  /\ \E config \in FacadeConfigs :
        instances = << [config |-> config, from |-> 0, given |-> config,
                        runs |-> <<>>] >>
  /\ d = NoDependencies
  /\ attempts = <<>>
  /\ fetchCalls = <<>>
  /\ spans = <<>>
  /\ hookCalls = <<>>

NextFacade ==
  \/ \E k \in 1..Len(instances), b \in FacadeSettings, method \in MethodTokens :
        Run(k, b, method)
  \/ \E i \in Attempts, detail \in Failures : FetchRejects(i, detail)
  \/ \E i \in Attempts : \E response \in Responses(attempts[i].params) :
        FetchResolves(i, response)
  \/ \E i \in Attempts : ErrorBodyDecoded(i)
  \/ \E i \in Attempts : BodyValidated(i)

SpecFacade == InitFacade /\ [][NextFacade]_vars

(***************************************************************************)
(* Calls whose descriptor carries an inputSchema next to a defined body.   *)
(* execute destructures url, method, op, name, fallback, headers, body,    *)
(* schema, credentials, cache and isRetry and reads errorSchema,           *)
(* errorMessage, onSpan and catch; it never reads inputSchema.             *)
(***************************************************************************)
InputParamsSet ==
  { [url |-> "/api/test",
     method |-> "POST",
     op |-> "mutate",
     name |-> "test",
     fallback |-> "failed",
     headers |-> EmptyMap,
     body |-> Some(EmailBody),
     inputSchema |-> i,
     schema |-> s,
     credentials |-> "include",
     cache |-> "no-store",
     errorSchema |-> "none",
     errorMessage |-> "none",
     onSpan |-> "none",
     catch |-> "none",
     isRetry |-> FALSE] :
    i \in {"none", "mock", "failing"}, s \in {"none", "mock", "failing"} }

NextInput ==
  \/ \E params \in InputParamsSet : Execute(params)
  \/ \E i \in Attempts, detail \in Failures : FetchRejects(i, detail)
  \/ \E i \in Attempts : \E response \in Responses(attempts[i].params) :
        FetchResolves(i, response)
  \/ \E i \in Attempts : ErrorBodyDecoded(i)
  \/ \E i \in Attempts : BodyValidated(i)

SpecInput == InitDecode /\ [][NextInput]_vars

(***************************************************************************)
(* C21: when the transport call throws or rejects, the attempt builds a    *)
(* Network error whose message is 'Network error: ' followed by the        *)
(* failure detail, emits one event with ok = false, no status and that     *)
(* error, has no response to read or validate, and proceeds to recovery:   *)
(* the hook is invoked with the error if one is configured and the attempt *)
(* is not a retry, otherwise the converted exception is thrown.            *)
(***************************************************************************)
C21_TransportFailureIsNetworkError ==
  \A i \in Attempts :
    /\ (attempts[i].error # None /\ attempts[i].error[1].type = "network")
         => attempts[i].response = None
    /\ (attempts[i].response = None /\ OutcomeKnown(i)) =>
         /\ \E detail \in Failures :
              attempts[i].error =
                Some([type |-> "network", message |-> "Network error: " \o detail,
                      status |-> None, statusText |-> None,
                      data |-> None, issues |-> None])
         /\ Cardinality(SpansOf(i)) = 1
         /\ \A n \in SpansOf(i) :
              /\ ~spans[n].ok
              /\ spans[n].status = None
              /\ spans[n].error = attempts[i].error
         /\ IF ~attempts[i].params.isRetry
               /\ (attempts[i].params.catch # "none" \/ d.catch # "none")
              THEN \E h \in HookCalls :
                     /\ hookCalls[h].owner = i
                     /\ hookCalls[h].error = attempts[i].error[1]
              ELSE /\ \A h \in HookCalls : hookCalls[h].owner # i
                   /\ attempts[i].pc = "done"
                   /\ attempts[i].promise.state = "rejected"
                   /\ attempts[i].promise.error[1].fetchError = attempts[i].error

C21_Witness ==
  /\ Len(attempts) = 2
  /\ attempts[1].response = None /\ attempts[2].response = None
  /\ attempts[1].error # None /\ attempts[2].error # None
  /\ attempts[1].error[1].message = "Network error: Failed to fetch"
  /\ Len(hookCalls) = 1 /\ hookCalls[1].owner = 1
  /\ attempts[2].promise.state = "rejected"
  /\ Len(spans) = 2 /\ spans[1].status = None /\ spans[2].status = None

(***************************************************************************)
(* C22 (as stated): whenever the recovery hook has invoked the retry       *)
(* function, the original call does not settle until that retried attempt  *)
(* has settled, whatever the hook does with the promise of the retry.      *)
(***************************************************************************)
C22_OriginalWaitsForEveryRetry ==
  \A k \in Attempts :
    (attempts[k].by # 0 /\ attempts[hookCalls[attempts[k].by].owner].pc = "done")
      => Settled(attempts[k].promise)

(***************************************************************************)
(* C22 (amended): when the recovery hook returns the promise of a retried  *)
(* attempt, the original call does not settle until that attempt has       *)
(* settled, and it settles the way that attempt did.                       *)
(***************************************************************************)
C22_OriginalWaitsForReturnedRetry ==
  \A h \in HookCalls :
    (hookCalls[h].ret = "retry" /\ attempts[hookCalls[h].owner].pc = "done")
      => /\ Settled(attempts[hookCalls[h].follow].promise)
         /\ attempts[hookCalls[h].owner].promise =
              attempts[hookCalls[h].follow].promise

C22_Witness ==
  /\ Len(hookCalls) = 1 /\ hookCalls[1].ret = "retry"
  /\ Len(attempts) = 2
  /\ attempts[1].pc = "done" /\ attempts[2].pc = "done"
  /\ attempts[1].promise.state = "resolved"
  /\ attempts[1].promise = attempts[2].promise

C26_BodySerializedWhenDefined ==
  \A k \in 1..Len(fetchCalls) :
    /\ fetchCalls[k].body =
         CASE attempts[k].params.body = None -> None
           [] attempts[k].params.body = Some(EmailBody) ->
                Some("{\"email\":\"a@b.com\"}")
           [] attempts[k].params.body = Some(JNull) -> Some("null")
    /\ attempts[k].by # 0 =>
         fetchCalls[k].body = fetchCalls[hookCalls[attempts[k].by].owner].body

C26_Witness ==
  /\ Len(fetchCalls) = 2
  /\ fetchCalls[1].method = "GET"
  /\ fetchCalls[1].body = Some("{\"email\":\"a@b.com\"}")
  /\ attempts[2].by = 1
  /\ fetchCalls[2].body = fetchCalls[1].body

\* the requests run through the instances: <<instance, position in its runs>>
RunsMade ==
  UNION { { <<k, r>> : r \in 1..Len(instances[k].runs) } : k \in 1..Len(instances) }
\* the configuration instance k must have: the one given to
\* createComposableFetcher, or the top-level keys of the instance configure
\* was called on, overridden key by key by the ones given to configure
RECURSIVE ExpectedConfig(_)
ExpectedConfig(k) ==
  IF instances[k].from = 0
    THEN instances[k].given
    ELSE LET base == ExpectedConfig(instances[k].from)
             next == instances[k].given
         IN [key \in DOMAIN base \cup DOMAIN next |->
               IF key \in DOMAIN next THEN next[key] ELSE base[key]]
\* the last of the layers that is defined and has the key, 0 if none
LastWith(layers, key) ==
  LET with == { n \in 1..Len(layers) :
                  layers[n].defined /\ key \in DOMAIN layers[n].map }
  IN IF with = {} THEN 0 ELSE CHOOSE n \in with : \A m \in with : m <= n
\* the merge of the layers in order, later layers winning, over the default
ExpectedHeaders(layers) ==
  [key \in {"Accept"} \cup
           UNION { DOMAIN layers[n].map : n \in { m \in 1..Len(layers) : layers[m].defined } } |->
     IF LastWith(layers, key) = 0 THEN "application/json"
     ELSE layers[LastWith(layers, key)].map[key]]
\* the header layers a caller may pass, and the sequences of up to three of them
HeaderLayers ==
  { UndefinedLayer, Layer(AppHeaders), Layer(PlainTextHeaders),
    Layer(LowerAcceptHeaders), Layer(AcceptHtmlHeaders), Layer(XmlHeaders) }
LayerSequences ==
  { <<>> } \cup { <<a>> : a \in HeaderLayers }
  \cup { <<a, b>> : a \in HeaderLayers, b \in HeaderLayers }
  \cup { <<a, b, c>> : a \in HeaderLayers, b \in HeaderLayers, c \in HeaderLayers }
\* the layers run() passes to resolveHeaders for run r of instance k
RunLayers(k, r) ==
  << IF "headers" \in DOMAIN ExpectedConfig(k)
       THEN ExpectedConfig(k)["headers"] ELSE UndefinedLayer,
     instances[k].runs[r].settings.headers,
     IF instances[k].runs[r].method \in {"GET", "HEAD", "OPTIONS"}
       THEN UndefinedLayer
       ELSE Layer("Content-Type" :> "application/json") >>

(***************************************************************************)
(* C24: for every sequence of header layers resolveHeaders returns the     *)
(* map that starts from Accept: application/json and takes the layers in   *)
(* argument order, later layers overwriting equal keys and undefined       *)
(* layers being skipped; the Accept default stays unless a layer sets the  *)
(* key Accept itself (accept in lower case is another key); the layers     *)
(* passed are not modified.  Checked on the layers the builder passes and  *)
(* on every sequence of up to three layers.                                *)
(***************************************************************************)
C24_HeadersMergedInOrder ==
  /\ \A run \in RunsMade :
       LET layers == RunLayers(run[1], run[2])
           result == attempts[instances[run[1]].runs[run[2]].attempt].params.headers
       IN /\ result = ExpectedHeaders(layers)
          /\ "Accept" \in DOMAIN result
          /\ (\A n \in 1..3 : ~(layers[n].defined /\ "Accept" \in DOMAIN layers[n].map))
               => result["Accept"] = "application/json"
          /\ instances[run[1]].config = ExpectedConfig(run[1])
  /\ attempts = <<>> =>
       \A layers \in LayerSequences : resolveHeaders(layers) = ExpectedHeaders(layers)

C24_Witness ==
  /\ Len(instances) = 1
  /\ instances[1].config = "headers" :> Layer(LowerAcceptHeaders)
  /\ Len(attempts) = 1
  /\ instances[1].runs[1].settings.headers = Layer(XmlHeaders)
  /\ attempts[1].params.method = "GET"
  /\ attempts[1].params.headers =
       ("Accept" :> "application/json") @@ ("accept" :> "text/html")
       @@ ("Content-Type" :> "application/xml")
       @@ ("Authorization" :> "Bearer new-token")

(***************************************************************************)
(* C25: the headers of a request made through the builder are merged in    *)
(* the documented order, later layers winning: the built-in ones (Accept,  *)
(* and Content-Type: application/json for mutations) first, then the       *)
(* instance headers, then the builder's headers.  So a Content-Type set by *)
(* the instance or the builder replaces the built-in one of a mutation.    *)
(***************************************************************************)
C25_DocumentedHeaderOrder ==
  \A run \in RunsMade :
    LET k == run[1]
        made == instances[k].runs[run[2]]
        builtIn == IF made.method \in {"GET", "HEAD", "OPTIONS"}
                     THEN Layer("Accept" :> "application/json")
                     ELSE Layer(("Accept" :> "application/json")
                                @@ ("Content-Type" :> "application/json"))
    IN fetchCalls[made.attempt].headers =
         ExpectedHeaders(<< builtIn,
                            IF "headers" \in DOMAIN ExpectedConfig(k)
                              THEN ExpectedConfig(k)["headers"] ELSE UndefinedLayer,
                            made.settings.headers >>)

(***************************************************************************)
(* C27: isQueryMethod is true for exactly the tokens GET, HEAD and OPTIONS *)
(* (in upper case) and false for every other token; a request run through  *)
(* the builder is tagged op = query in its descriptor and events iff its   *)
(* method is one of these, and op = mutate otherwise.                      *)
(***************************************************************************)
C27_QueryMethodsTagQuery ==
  /\ \A m \in MethodTokens \cup {"get", "head", "Options", "TRACE", "CONNECT", ""} :
       isQueryMethod(m) <=> m \in {"GET", "HEAD", "OPTIONS"}
  /\ \A i \in Attempts :
       attempts[i].params.op =
         IF attempts[i].params.method \in {"GET", "HEAD", "OPTIONS"}
           THEN "query" ELSE "mutate"
  /\ \A n \in 1..Len(spans) :
       spans[n].op =
         IF spans[n].method \in {"GET", "HEAD", "OPTIONS"} THEN "query" ELSE "mutate"

C27_Witness ==
  /\ Len(spans) = 1
  /\ spans[1].method = "OPTIONS"
  /\ spans[1].op = "query"
  /\ attempts[1].params.method = "OPTIONS"
  /\ ~isQueryMethod("options")

(***************************************************************************)
(* C28: for every classified error e that is thrown, the exception is      *)
(* toError(e): its message is e.message, its name is 'FetchError.'         *)
(* followed by the variant tag of e, and its fetchError is e, for each of  *)
(* the three variants.                                                     *)
(***************************************************************************)
C28_ThrowableCarriesError ==
  \A i \in Attempts : attempts[i].error # None =>
    LET e == attempts[i].error[1] IN
      /\ e.type \in {"network", "http", "parse"}
      /\ attempts[i].promise.state = "rejected"
      /\ attempts[i].promise.error[1].message = e.message
      /\ attempts[i].promise.error[1].name =
           CASE e.type = "network" -> "FetchError.network"
             [] e.type = "http" -> "FetchError.http"
             [] e.type = "parse" -> "FetchError.parse"
      /\ attempts[i].promise.error[1].fetchError = Some(e)
      /\ DOMAIN attempts[i].promise.error[1] = {"name", "message", "fetchError"}

C28_Witness ==
  /\ Len(attempts) = 1
  /\ attempts[1].error # None
  /\ attempts[1].error[1].type = "parse"
  /\ attempts[1].promise.state = "rejected"
  /\ attempts[1].promise.error[1].name = "FetchError.parse"
  /\ attempts[1].promise.error[1].message = "Unexpected response format"
  /\ attempts[1].promise.error[1].fetchError[1].issues = Some(<<"expected string">>)

(***************************************************************************)
(* C29: configure(next) makes a new instance whose configuration is the    *)
(* configuration of the original with the top-level keys of next           *)
(* overriding it, so that headers in next replace the original headers as  *)
(* a whole; the original instance is not affected: a request made through  *)
(* it after configure carries the original headers and none of the derived *)
(* ones.                                                                   *)
(***************************************************************************)
C29_ConfigureDerivesShallowMerge ==
  /\ \A k \in 1..Len(instances) :
       /\ instances[k].config = ExpectedConfig(k)
       /\ instances[k].from # 0 =>
            /\ instances[k].from < k
            /\ \A key \in DOMAIN instances[k].given :
                 instances[k].config[key] = instances[k].given[key]
            /\ \A key \in DOMAIN instances[instances[k].from].given
                            \ DOMAIN instances[k].given :
                 instances[instances[k].from].from = 0 =>
                   instances[k].config[key] = instances[instances[k].from].given[key]
  /\ \A run \in RunsMade :
       LET k == run[1]
           sent == fetchCalls[instances[k].runs[run[2]].attempt].headers
       IN /\ sent = ExpectedHeaders(RunLayers(k, run[2]))
          /\ instances[k].from = 0 =>
               /\ "X-Derived" \notin DOMAIN sent
               /\ \A key \in DOMAIN sent :
                    key \in {"Accept", "Content-Type"}
                    \/ (instances[k].runs[run[2]].settings.headers.defined
                        /\ key \in DOMAIN instances[k].runs[run[2]].settings.headers.map)
                    \/ ("headers" \in DOMAIN instances[k].given
                        /\ instances[k].given["headers"].defined
                        /\ key \in DOMAIN instances[k].given["headers"].map)
          /\ ( /\ instances[k].from # 0
               /\ "headers" \in DOMAIN instances[k].given
               /\ ~instances[k].runs[run[2]].settings.headers.defined )
             => \A key \in DOMAIN sent :
                  key \in {"Accept", "Content-Type"}
                  \/ (instances[k].given["headers"].defined
                      /\ key \in DOMAIN instances[k].given["headers"].map)

C29_Witness ==
  /\ Len(instances) = 2
  /\ instances[1].given = "headers" :> Layer(AppHeaders)
  /\ instances[2].from = 1
  /\ instances[2].given = "headers" :> Layer(DerivedHeaders)
  /\ instances[2].config["headers"] = Layer(DerivedHeaders)
  /\ Len(instances[1].runs) = 1
  /\ ~instances[1].runs[1].settings.headers.defined
  /\ fetchCalls[1].headers =
       ("Accept" :> "application/json") @@ AppHeaders

(***************************************************************************)
(* C30: when a request has an inputSchema and a defined body and the       *)
(* inputSchema reports issues, the transport is never called: an 'input'   *)
(* error with the message 'Invalid input' and the schema's issue messages  *)
(* is built, one event with ok = false and that error is emitted, and the  *)
(* error goes to the recovery hook if there is one and is thrown           *)
(* otherwise.                                                              *)
(***************************************************************************)
C30_InvalidInputNeverSent ==
  \A i \in Attempts :
    ( /\ attempts[i].params.inputSchema = "failing"
      /\ attempts[i].params.body # None )
    => /\ fetchCalls = <<>>
       /\ attempts[i].error # None
       /\ attempts[i].error[1].type = "input"
       /\ attempts[i].error[1].message = "Invalid input"
       /\ attempts[i].error[1].issues = Some(<<"expected string">>)
       /\ attempts[i].promise.state = "rejected"
       /\ SinkOf(i) # "none" =>
            /\ Cardinality(SpansOf(i)) = 1
            /\ \A n \in SpansOf(i) :
                 ~spans[n].ok /\ spans[n].error = attempts[i].error

(***************************************************************************)
(* C31: for a failing request run through the builder, the handler set on  *)
(* the builder is the one execute invokes, otherwise the handler of the    *)
(* instance configuration is invoked; when both are set only the           *)
(* builder's handler is invoked.                                           *)
(***************************************************************************)
C31_FacadeHandlerReachesCore ==
  \A run \in RunsMade :
    LET made == instances[run[1]].runs[run[2]]
        config == instances[run[1]].config
        wanted == IF made.settings.onError # "none" THEN made.settings.onError
                  ELSE IF "onError" \in DOMAIN config THEN config["onError"]
                  ELSE "none"
        invoked == { hookCalls[h].handler :
                       h \in { n \in HookCalls : hookCalls[n].owner = made.attempt } }
    IN attempts[made.attempt].error # None =>
         invoked = IF wanted = "none" THEN {} ELSE {wanted}

(***************************************************************************)
(* C32: in a call whose first attempt fails and whose hook retries, the    *)
(* steps occur in the order first transport call, first event (ok = false  *)
(* with the first error), hook invocation, second transport call, second   *)
(* event, settlement of the original call: whenever a retried attempt      *)
(* exists, the event of the first attempt is already in the sink, was      *)
(* there when the hook was invoked and precedes every event of the         *)
(* retried attempt; and when the original call has settled with the        *)
(* retried attempt's outcome, the retried attempt has emitted its event.   *)
(***************************************************************************)
C32_RetryStepsInOrder ==
  \A k \in Attempts :
    attempts[k].by # 0 =>
      LET h == attempts[k].by
          o == hookCalls[h].owner
      IN /\ o < k
         /\ fetchCalls[o].url = attempts[o].params.url
         /\ attempts[o].error = Some(hookCalls[h].error)
         /\ \E n \in SpansOf(o) :
              /\ ~spans[n].ok
              /\ spans[n].error = Some(hookCalls[h].error)
              /\ attempts[o].spansAtError # None
              /\ n <= attempts[o].spansAtError[1]
              /\ \A m \in SpansOf(k) : n < m
         /\ ( /\ hookCalls[h].ret = "retry"
              /\ hookCalls[h].follow = k
              /\ Settled(attempts[o].promise) )
            => /\ Settled(attempts[k].promise)
               /\ Cardinality(SpansOf(k)) = 1

C32_Witness ==
  /\ Len(attempts) = 2
  /\ attempts[2].by = 1
  /\ hookCalls[1].ret = "retry"
  /\ hookCalls[1].follow = 2
  /\ Settled(attempts[1].promise)
  /\ Len(fetchCalls) = 2
  /\ Len(spans) = 2
  /\ spans[1].attempt = 1 /\ ~spans[1].ok
  /\ spans[2].attempt = 2

(***************************************************************************)
(* C33: every emitted event has ok = true exactly when it carries no       *)
(* error; its status is absent exactly when its error is a network error;  *)
(* and the status of an event with an HTTP error equals the status of      *)
(* that error and the status of the response received in that attempt.     *)
(***************************************************************************)
C33_EventFieldsConsistent ==
  \A n \in 1..Len(spans) :
    LET e == spans[n] IN
    /\ e.ok <=> e.error = None
    /\ e.status = None <=> (e.error # None /\ e.error[1].type = "network")
    /\ (e.error # None /\ e.error[1].type = "http") =>
         /\ e.status = e.error[1].status
         /\ attempts[e.attempt].response # None
         /\ e.error[1].status = Some(attempts[e.attempt].response[1].status)

C33_Witness ==
  \E n \in 1..Len(spans) :
    /\ ~spans[n].ok
    /\ spans[n].error # None
    /\ spans[n].error[1].type = "http"
    /\ spans[n].status = Some(422)
    /\ spans[n].error[1].status = Some(422)
    /\ attempts[spans[n].attempt].response[1].status = 422

(***************************************************************************)
(* C34: within one failing attempt the error in the event, the error       *)
(* handed to the recovery hook and, when the attempt escalates, the error  *)
(* carried by the thrown exception are the same value: same kind,          *)
(* message, status and data.                                               *)
(***************************************************************************)
C34_OneErrorPerFailingAttempt ==
  \A i \in Attempts :
    \A n \in SpansOf(i) :
      ~spans[n].ok =>
        LET e == spans[n].error[1] IN
        /\ \A h \in HookCalls :
             hookCalls[h].owner = i =>
               /\ hookCalls[h].error.type = e.type
               /\ hookCalls[h].error.message = e.message
               /\ hookCalls[h].error.status = e.status
               /\ hookCalls[h].error.data = e.data
               /\ hookCalls[h].error = e
        /\ (\A h \in HookCalls : hookCalls[h].owner # i) =>
             /\ attempts[i].promise.state = "rejected"
             /\ attempts[i].promise.error[1].fetchError = Some(e)

C34_Witness ==
  /\ Len(attempts) = 2
  /\ Len(spans) = 2
  /\ spans[1].attempt = 1 /\ spans[2].attempt = 2
  /\ spans[1].error[1].type = "http" /\ spans[1].error[1].message = "X"
  /\ hookCalls[1].owner = 1 /\ hookCalls[1].error = spans[1].error[1]
  /\ spans[2].error # None /\ spans[2].error[1].type = "network"
  /\ attempts[2].promise.state = "rejected"
  /\ attempts[2].promise.error[1].fetchError = spans[2].error

(***************************************************************************)
(* C35: the failure of a retried attempt rejects the promise retry()       *)
(* returned and goes nowhere else: no hook is invoked for it and the       *)
(* original call stays pending while its hook runs.  If the hook returns   *)
(* that promise, the original call rejects with the Classified Error of    *)
(* the retried attempt, not with that of the first attempt; if the hook    *)
(* returns a value or nothing after the retried attempt failed, the        *)
(* original call resolves.                                                 *)
(***************************************************************************)
C35_RetryFailureGoesToHook ==
  \A h \in HookCalls :
    LET o == hookCalls[h].owner IN
    /\ \A k \in RetriesOf(h) : \A n \in SpansOf(k) :
         ~spans[n].ok =>
           /\ attempts[k].promise.state = "rejected"
           /\ attempts[k].promise.error[1].fetchError = spans[n].error
           /\ \A g \in HookCalls : hookCalls[g].owner # k
           /\ hookCalls[h].pc = "running" => ~Settled(attempts[o].promise)
           /\ ( /\ hookCalls[h].ret = "retry"
                /\ hookCalls[h].follow = k
                /\ attempts[o].pc = "done" )
              => /\ attempts[o].promise.state = "rejected"
                 /\ attempts[o].promise.error[1].fetchError = spans[n].error
                 /\ attempts[o].promise.error[1].name =
                      "FetchError." \o spans[n].error[1].type
           /\ hookCalls[h].ret \in {"void", "nothing", "value"}
              => /\ attempts[o].promise.state = "resolved"
                 /\ attempts[o].promise.value =
                      IF hookCalls[h].ret = "value" THEN Some(SubstituteValue)
                      ELSE Some(Undefined)

C35_Witness ==
  /\ Len(attempts) = 2
  /\ hookCalls[1].owner = 1
  /\ hookCalls[1].error.type = "http"
  /\ hookCalls[1].ret = "retry" /\ hookCalls[1].follow = 2
  /\ attempts[1].promise.state = "rejected"
  /\ attempts[1].promise.error[1].fetchError # None
  /\ attempts[1].promise.error[1].fetchError[1].type = "network"
  /\ attempts[1].promise = attempts[2].promise

(***************************************************************************)
(* C36: an attempt whose response has the success flag and whose response  *)
(* schema, if there is one, accepts the body never invokes the recovery    *)
(* hook and starts no retry, whether the hook is configured in the         *)
(* request or in the dependencies; the attempt resolves.                   *)
(***************************************************************************)
C36_SuccessNeverRecovers ==
  \A i \in Attempts :
    ( /\ attempts[i].response # None
      /\ attempts[i].response[1].ok
      /\ attempts[i].params.schema \in {"none", "mock"} )
    => /\ \A h \in HookCalls : hookCalls[h].owner # i
       /\ \A k \in Attempts :
            attempts[k].by # 0 => hookCalls[attempts[k].by].owner # i
       /\ attempts[i].pc \in {"body", "done"}
       /\ attempts[i].pc = "done" => attempts[i].promise.state = "resolved"

C36_Witness ==
  \E i \in Attempts :
    /\ attempts[i].response # None
    /\ attempts[i].response[1].ok
    /\ attempts[i].params.schema = "mock"
    /\ attempts[i].params.catch = "reqCatch"
    /\ d.catch = "depCatch"
    /\ attempts[i].promise.state = "resolved"
    /\ hookCalls = <<>>
    /\ Len(attempts) = 1

(***************************************************************************)
(* C37: the error schema and the message extractor are resolved each on    *)
(* its own, the request's value first and the dependencies' value          *)
(* otherwise.  When the request has an error schema and no extractor and   *)
(* the dependencies have an extractor, the HTTP error's data is the value  *)
(* decoded by the request's schema and its message is the result of the    *)
(* dependencies' extractor on that value; likewise the request's           *)
(* extractor is applied to the value decoded by the dependencies' schema   *)
(* when the request has no error schema.                                   *)
(***************************************************************************)
C37_SchemaAndExtractorResolvedApart ==
  \A i \in Attempts : FailedResponseDecoded(i) =>
    LET p == attempts[i].params
        body == ParsedBody(i)
        e == attempts[i].error[1]
        Accepts(schema) ==
          \/ schema = "mock"
          \/ /\ schema = "strict"
             /\ body.type = "object"
             /\ \E n \in 1..Len(body.fields) : body.fields[n][1] = "code"
    IN /\ ( /\ p.errorSchema # "none" /\ p.errorMessage = "none"
            /\ d.errorMessage # "none"
            /\ Accepts(p.errorSchema) )
          => /\ e.data = Some(body)
             /\ e.message = d.errorMessage \o ":" \o ErrorText(body)
       /\ ( /\ p.errorSchema = "none" /\ p.errorMessage # "none"
            /\ Accepts(d.errorSchema) )
          => /\ e.data = Some(body)
             /\ e.message = p.errorMessage \o ":" \o ErrorText(body)

C37_Witness ==
  /\ Len(attempts) = 1
  /\ FailedResponseDecoded(1)
  /\ attempts[1].params.errorSchema = "strict"
  /\ attempts[1].params.errorMessage = "none"
  /\ d.errorSchema = "failing"
  /\ d.errorMessage = "depMsg"
  /\ attempts[1].response[1].body = ApiErrorBody
  /\ attempts[1].error[1].data = Some(ApiErrorBody)
  /\ attempts[1].error[1].message = "depMsg:taken"

(***************************************************************************)
(* C38: when the recovery hook throws, or returns a promise of its own     *)
(* that rejects, the call rejects with the hook's exception, which         *)
(* carries no Classified Error; the attempt has emitted its one event and  *)
(* emits no other, the transport has been called once for the attempt and  *)
(* once for each retry() the hook made before it threw, and from then on   *)
(* no transport call is made and the outcome of the call does not change.  *)
(***************************************************************************)
C38_HookExceptionRejects ==
  /\ [](\A h \in HookCalls :
          hookCalls[h].ret = "throw" =>
            LET o == hookCalls[h].owner IN
            /\ attempts[o].promise.state = "rejected"
            /\ attempts[o].promise.error[1].name = "Error"
            /\ attempts[o].promise.error[1].message = "hook failed"
            /\ attempts[o].promise.error[1].fetchError = None
            /\ Cardinality(SpansOf(o)) = 1
            /\ Len(fetchCalls) = 1 + Cardinality(RetriesOf(h)))
  /\ [][\A h \in HookCalls :
          hookCalls[h].ret = "throw" =>
            /\ fetchCalls' = fetchCalls
            /\ attempts'[hookCalls[h].owner] = attempts[hookCalls[h].owner]
            /\ \A n \in 1..Len(spans') :
                 spans'[n].attempt = hookCalls[h].owner => n <= Len(spans)]_vars

C38_Witness ==
  /\ Len(hookCalls) = 1
  /\ hookCalls[1].ret = "throw"
  /\ hookCalls[1].error.type = "http"
  /\ attempts[1].promise = Rejected(HookException)
  /\ Len(attempts) = 2
  /\ attempts[2].pc = "done"
  /\ Len(spans) = 2

C40_EveryCallSettles ==
  /\ [](\A k \in Attempts :
          /\ attempts[k].by = 0 => ~attempts[k].params.isRetry
          /\ attempts[k].by # 0 =>
               /\ attempts[k].params.isRetry
               /\ attempts[hookCalls[attempts[k].by].owner].by = 0
               /\ \A h \in HookCalls : hookCalls[h].owner # k)
  /\ \A i \in 1..MaxAttempts :
       (i \in Attempts) ~> (i \in Attempts /\ Settled(attempts[i].promise))

C40_Witness ==
  /\ Len(attempts) = MaxAttempts
  /\ \A k \in Attempts : Settled(attempts[k].promise)
  /\ \A k \in Attempts : k > 1 => attempts[k].by = 1
  /\ hookCalls[1].ret = "retry"
  /\ attempts[1].promise = attempts[hookCalls[1].follow].promise

====
